---- MODULE Spec2Model ----
(***************************************************************************)
(* Model of the DigitalTwinSimulation view of the control-room dashboard:  *)
(* the derived metrics computed from the simulation parameters, the manual *)
(* prediction request with its transient status message, and the telemetry *)
(* polling effect with its sample buffer and downstream dispatch.          *)
(*                                                                         *)
(* Numbers.  Every simulation parameter is a JavaScript number.  The model *)
(* holds a parameter as an integer count of hundredths (98000 is 980.00),  *)
(* and evaluates the arithmetic of the source exactly over the rationals:  *)
(* Math.round(x) is floor(x + 1/2), toFixed(2) is the nearest hundredth.   *)
(* Only finite numbers are modelled (an <input type="number"> yields ""    *)
(* for anything else, and Number("") is 0).                                *)
(*                                                                         *)
(* Time is counted in milliseconds.  A pending timer is the number of      *)
(* milliseconds left until it fires, Null when no timer is pending.        *)
(***************************************************************************)
EXTENDS Integers, Sequences, FiniteSets, TLC

VARIABLES
  params,             \* useState<SimulationParams>, in hundredths
  edits,              \* number of parameter edits made so far (bounded)
  result,             \* useState<SimulationResult | null>
  isPredicting,       \* useState(false)
  predictionStatus,   \* useState<string | null>
  statusTimer,        \* the setTimeout of the status effect: ms left, or Null
  manual,             \* the latest manual prediction request, or Null
  manualSent,         \* number of POSTs to /api/send_critical_data so far
  selectedMachineId,  \* prop of the view, state of the Index page
  autoMode,           \* useState(false), no setter
  failureProbability, \* useState<number | null>, in hundredths
  lastUpdate,         \* useState<number | null>
  buffer,             \* telemetryBufferRef.current
  effect,             \* polling effect: "pending", "skipped", "active", "cleaned"
  interval,           \* the setInterval of the polling effect: ms left, or Null
  polls,              \* the calls of fetchTelemetry, in the order they started
  samplesServed,      \* number of telemetry samples produced by the endpoint
  activeTab,          \* Index: useState('dashboard')
  machines,           \* the records of the machinesData array
  lineStatus,         \* OverviewDashboard: getProductionLineStatus(), or Null
  warningCount,       \* OverviewDashboard: machines requiring attention, or Null
  recommendations,    \* DecisionsExplainability: useState(aiRecommendations)
  approvedAction,     \* DecisionsExplainability: useState<string | null>(null)
  toasts,             \* the toasts raised so far, oldest first
  formData,           \* ManualParameterSender: useState(INITIAL_DATA)
  response,           \* ManualParameterSender: useState<any>(null)
  loading,            \* ManualParameterSender: useState(false)
  error,              \* ManualParameterSender: useState<string | null>(null)
  submits,            \* the POSTs of ManualParameterSender, oldest first
  telemetryPayload,   \* a payload of the telemetry endpoint, as response.json()
  telemetrySample     \* what getLatestSample made of it; Null before the call

paramVars  == <<params, edits>>
manualVars == <<result, isPredicting, predictionStatus, statusTimer, manual,
                manualSent, selectedMachineId>>
pollVars   == <<autoMode, failureProbability, lastUpdate, buffer, effect, interval,
                polls, samplesServed>>
pageVars   == <<activeTab, machines, lineStatus, warningCount, recommendations,
                approvedAction, toasts>>
senderVars == <<formData, response, loading, error, submits>>
readVars   == <<telemetryPayload, telemetrySample>>
vars       == <<params, edits, result, isPredicting, predictionStatus, statusTimer,
                manual, manualSent, selectedMachineId, autoMode,
                failureProbability, lastUpdate,
                buffer, effect, interval, polls, samplesServed,
                activeTab, machines, lineStatus, warningCount, recommendations,
                approvedAction, toasts,
                formData, response, loading, error, submits,
                telemetryPayload, telemetrySample>>

\* A nullable value of the program is the empty sequence for null and a
\* one-element sequence holding the value otherwise.
Null == <<>>
Some(v) == <<v>>
Get(o) == o[1]

(***************************************************************************)
(* Bounds of the model.                                                    *)
(***************************************************************************)
MaxEdits == 3        \* parameter edits explored from the default parameters
MaxPolls == 2        \* calls of fetchTelemetry explored per behaviour
MaxManual == 3       \* manual prediction requests explored per behaviour
MaxDecisions == 4    \* recommendations approved or rejected per behaviour
MaxSubmits == 2      \* submits of ManualParameterSender explored per behaviour
MaxMachines == 4     \* machine records explored for the overview
MaxRecs == 3         \* recommendations explored for the approval view
MaxSeries == 2       \* samples per series of a telemetry payload

\* Values typed into a parameter field, in hundredths: -2500.50, 0, 2500.50.
ParamInputs == {-250050, 0, 250050}

(***************************************************************************)
(* Exact arithmetic helpers.                                               *)
(***************************************************************************)
Max(a, b) == IF a >= b THEN a ELSE b
Min(a, b) == IF a <= b THEN a ELSE b

\* Math.round(n / d) for d > 0: the nearest integer, halves towards +infinity.
MathRound(n, d) == (2 * n + d) \div (2 * d)

\* const clamp = (value, min, max) => Math.min(max, Math.max(min, value))
clampLow(value, min, max) == Min(max, value)
clamp(value, min, max) == Min(max, Max(min, value))

(***************************************************************************)
(* Simulation parameters.                                                  *)
(***************************************************************************)
ParamKeys ==
  {"rpm", "torque", "loadWeight", "motorTemp", "windingTemp", "bearingTemp",
   "ambientTemp", "vibrationX", "vibrationY", "vibrationZ", "voltage",
   "current", "powerConsumption", "powerFactor", "harmonicDistortion",
   "efficiency", "insulationResistance", "operatingHours", "startStopCycles",
   "wearLevel", "bearingWear", "humidity"}

defaultParams ==
  [rpm |-> 98000, torque |-> 12000, loadWeight |-> 6200, motorTemp |-> 18800,
   windingTemp |-> 18800, bearingTemp |-> 16200, ambientTemp |-> 2800,
   vibrationX |-> 210, vibrationY |-> 240, vibrationZ |-> 220,
   voltage |-> 40000, current |-> 2200, powerConsumption |-> 1800,
   powerFactor |-> 88, harmonicDistortion |-> 222, efficiency |-> 8800,
   insulationResistance |-> 1200, operatingHours |-> 420000,
   startStopCycles |-> 1400, wearLevel |-> 1800, bearingWear |-> 2800,
   humidity |-> 4800]

(***************************************************************************)
(* derived = useMemo(..., [params]).                                       *)
(*                                                                         *)
(* The weighted sum of riskScore is a sum of fractions n/d.  Each term is  *)
(* split into its integer part and a remainder over the common denominator *)
(* RiskDenom, so the sum is exact and stays within the integers of TLC.    *)
(***************************************************************************)
RiskDenom == 1100000

\* The terms of the sum as <<numerator, denominator>>, p in hundredths:
\*   (rpm / 2000) * 18          = rpm_h * 9 / 100000
\*   (torque / 200) * 12        = torque_h * 3 / 5000
\*   (vibration / 10) * 15      = vibration_h * 3 / 200
\*   (temperature / 220) * 12   = temperature * 3 / 55
\*   max(0, 1 - powerFactor)*20 = max(0, 100 - pf_h) / 5
\*   max(0, ambientTemp-25)*0.3 = max(0, amb_h - 2500) * 3 / 1000
\*   bearingWear * 0.12         = bw_h * 3 / 2500
\*   wearLevel * 0.08           = wl_h / 1250
derivedVibration(p) == MathRound(p.vibrationX + p.vibrationY + p.vibrationZ, 3)

derivedTemperature(p) == MathRound(p.motorTemp + p.bearingTemp, 200)

RiskTerms(p) ==
  << <<p.rpm * 9, 100000>>,
     <<p.torque * 3, 5000>>,
     <<derivedVibration(p) * 3, 200>>,
     <<derivedTemperature(p) * 3, 55>>,
     <<Max(0, 100 - p.powerFactor), 5>>,
     <<Max(0, p.ambientTemp - 2500) * 3, 1000>>,
     <<p.bearingWear * 3, 2500>>,
     <<p.wearLevel, 1250>> >>

RECURSIVE SumWhole(_, _)
SumWhole(terms, i) ==
  IF i > Len(terms) THEN 0
  ELSE (terms[i][1] \div terms[i][2]) + SumWhole(terms, i + 1)

RECURSIVE SumFrac(_, _)
SumFrac(terms, i) ==
  IF i > Len(terms) THEN 0
  ELSE (terms[i][1] % terms[i][2]) * (RiskDenom \div terms[i][2])
       + SumFrac(terms, i + 1)

\* Math.round of the weighted sum, before the clamp.
riskRaw(p) ==
  LET terms == RiskTerms(p) IN
  SumWhole(terms, 1) + MathRound(SumFrac(terms, 1), RiskDenom)

riskScore(p) == clamp(riskRaw(p), 0, 100)

\* Math.max(120, Math.round(1400 - riskScore*8 - operatingHours/6 - bearingWear*3))
remainingLifeNoFloor(p) ==
  MathRound(840000 - riskScore(p) * 4800 - p.operatingHours - p.bearingWear * 18, 600)
remainingLife(p) ==
  Max(120,
      MathRound(840000 - riskScore(p) * 4800 - p.operatingHours - p.bearingWear * 18,
                600))

derived(p) ==
  [rpm |-> p.rpm,
   loadPercent |-> clamp(MathRound(p.loadWeight, 100), 0, 100),
   vibration |-> derivedVibration(p),
   temperature |-> derivedTemperature(p),
   riskScore |-> riskScore(p),
   expectedTemp |-> derivedTemperature(p),
   remainingLife |-> remainingLife(p)]

(***************************************************************************)
(* The Index page and the data of mockData.  The page renders exactly one  *)
(* view, the one of activeTab; a view that is not rendered is unmounted.   *)
(* Of a machine record the model keeps the id, the name and the status, of *)
(* a recommendation the id, the urgency and approved (Null is undefined).  *)
(***************************************************************************)
TabIds == {"dashboard", "machine", "simulation", "decisions"}

machinesData ==
  <<[id |-> "B1", name |-> "High-Pressure Boiler", status |-> "healthy"]>>

aiRecommendations ==
  <<[id |-> "REC-001", urgency |-> "high", approved |-> Null]>>

MachineStatus == {"healthy", "warning", "critical"}

\* machinesData.filter(m => m.status === status).length
CountStatus(statuses) ==
  Cardinality({i \in 1..Len(machines) : machines[i].status \in statuses})

getProductionLineStatusIgnoresCritical ==
  IF CountStatus({"warning"}) > 0 THEN "warning" ELSE "normal"

getProductionLineStatus ==
  IF CountStatus({"critical"}) > 0 THEN "at-risk"
  ELSE IF CountStatus({"warning"}) > 0 THEN "warning"
  ELSE "normal"

\* machinesData.find(m => m.id === selectedMachineId) || machinesData[0]
machine ==
  IF \E i \in 1..Len(machines) : machines[i].id = selectedMachineId
    THEN machines[CHOOSE i \in 1..Len(machines) :
                    /\ machines[i].id = selectedMachineId
                    /\ \A j \in 1..(i - 1) : machines[j].id # selectedMachineId]
    ELSE machines[1]

(***************************************************************************)
(* ManualParameterSender.  Of the 27 fields of INITIAL_DATA the model      *)
(* follows one of each input type: machineId (text), rpm (number, in       *)
(* thousandths) and isRunning (checkbox).                                  *)
(***************************************************************************)
INITIAL_DATA == [machineId |-> "m1", rpm |-> 2535020, isRunning |-> TRUE]

(***************************************************************************)
(* The state after construction of the component.                          *)
(***************************************************************************)
InitParams == params = defaultParams /\ edits = 0

InitManual ==
  /\ result = Null
  /\ isPredicting = FALSE
  /\ predictionStatus = Null
  /\ statusTimer = Null
  /\ manual = Null
  /\ manualSent = 0
  /\ selectedMachineId = "B1"

InitPollOff ==
  /\ autoMode = FALSE
  /\ failureProbability = Null
  /\ lastUpdate = Null
  /\ buffer = <<>>
  /\ effect = "pending"
  /\ interval = Null
  /\ polls = <<>>
  /\ samplesServed = 0

\* The views of the page as rendered for tab.
OverviewFor(tab) ==
  /\ lineStatus = IF tab = "dashboard" THEN Some(getProductionLineStatus) ELSE Null
  /\ warningCount =
       IF tab = "dashboard" THEN Some(CountStatus({"warning", "critical"}))
       ELSE Null

\* The page with the tab shown and a view that has just been mounted.
InitPage(tab) ==
  /\ activeTab = tab
  /\ machines = machinesData
  /\ OverviewFor(tab)
  /\ recommendations = IF tab = "decisions" THEN aiRecommendations ELSE <<>>
  /\ approvedAction = Null
  /\ toasts = <<>>

InitSender ==
  /\ formData = INITIAL_DATA
  /\ response = Null
  /\ loading = FALSE
  /\ error = Null
  /\ submits = <<>>

\* No telemetry payload has been received.
InitRead == telemetryPayload = Null /\ telemetrySample = Null

\* The Digital Twin tab has just been opened.
Init ==
  /\ InitParams /\ InitManual /\ InitPollOff
  /\ InitPage("simulation") /\ InitSender /\ InitRead

(***************************************************************************)
(* Parameter panel.                                                        *)
(***************************************************************************)
\* updateNumber(key, value): setParams(prev => ({ ...prev, [key]: value }))
updateNumberClearsResult(key, value) ==
  /\ edits < MaxEdits
  /\ params' = [params EXCEPT ![key] = value]
  /\ edits' = edits + 1
  /\ result' = Null
  /\ UNCHANGED <<pageVars, senderVars, readVars>>
  /\ UNCHANGED <<isPredicting, predictionStatus, statusTimer, manual, manualSent,
                 selectedMachineId, pollVars>>

updateNumber(key, value) ==
  /\ edits < MaxEdits
  /\ params' = [params EXCEPT ![key] = value]
  /\ edits' = edits + 1
  /\ UNCHANGED <<pageVars, senderVars, readVars>>
  /\ UNCHANGED <<manualVars, pollVars>>

\* resetToDefault
resetToDefault ==
  /\ effect # "cleaned"
  /\ params' = defaultParams
  /\ result' = Null
  /\ failureProbability' = Null
  /\ buffer' = <<>>
  /\ manual' = IF manual # Null /\ Get(manual).pc = "awaiting"
                 THEN Some([Get(manual) EXCEPT !.reset = TRUE])
                 ELSE manual
  /\ UNCHANGED <<pageVars, senderVars, readVars>>
  /\ UNCHANGED <<edits, isPredicting, predictionStatus, statusTimer,
                 manualSent, selectedMachineId, autoMode, lastUpdate, effect,
                 interval, polls, samplesServed>>

(***************************************************************************)
(* Timers.  Time passes by Elapse; it never passes a pending deadline, so  *)
(* a timer whose time is up fires before the clock moves on.               *)
(***************************************************************************)
STATUS_CLEAR_MS == 3000
TELEMETRY_POLL_MS == 1000

\* Steps by which the clock advances, besides the step to the next deadline.
ElapseSteps == {1000}

PendingTimers == {Get(t) : t \in {u \in {statusTimer, interval} : u # Null}}

NextDeadline ==
  IF PendingTimers = {} THEN 0
  ELSE CHOOSE t \in PendingTimers : \A u \in PendingTimers : t <= u

CountDown(t, d) == IF t = Null THEN Null ELSE Some(Get(t) - d)

Elapse(d) ==
  /\ PendingTimers # {}
  /\ d > 0
  /\ d <= NextDeadline
  /\ statusTimer' = CountDown(statusTimer, d)
  /\ interval' = CountDown(interval, d)
  /\ UNCHANGED <<pageVars, senderVars, readVars>>
  /\ UNCHANGED <<paramVars, result, isPredicting, predictionStatus, manual,
                 manualSent, selectedMachineId, autoMode, failureProbability,
                 lastUpdate, buffer, effect, polls, samplesServed>>

TimePasses == \E d \in ElapseSteps \cup {NextDeadline} : Elapse(d)

(***************************************************************************)
(* The effect on [predictionStatus]: when the status changes, the cleanup  *)
(* of the previous run clears its timer, and a truthy status arms a new    *)
(* timer of 3000 ms.  A status set to the value it already has does not    *)
(* re-run the effect.  The result is the timer after the render.           *)
(***************************************************************************)
Truthy(status) == status # Null /\ Get(status) # ""

StatusEffectErrorsStay(newStatus, oldStatus, oldTimer) ==
  IF newStatus = oldStatus THEN oldTimer
  ELSE IF newStatus = Some("Prediction received!") THEN Some(STATUS_CLEAR_MS)
  ELSE Null

StatusEffect(newStatus, oldStatus, oldTimer) ==
  IF newStatus = oldStatus THEN oldTimer
  ELSE IF Truthy(newStatus) THEN Some(STATUS_CLEAR_MS)
  ELSE Null

\* The callback of the timer: setPredictionStatus(null).
StatusTimerFire ==
  /\ statusTimer = Some(0)
  /\ predictionStatus' = Null
  /\ statusTimer' = StatusEffect(Null, predictionStatus, Null)
  /\ UNCHANGED <<pageVars, senderVars, readVars>>
  /\ UNCHANGED <<paramVars, result, isPredicting, manual, manualSent,
                 selectedMachineId, pollVars>>

(***************************************************************************)
(* handleSendToFriend: the manual prediction request.                      *)
(***************************************************************************)
\* What POST /api/send_critical_data can come back with.
ApiResponses ==
  {[failureProbability |-> 73, riskLevel |-> "CRITICAL",
    interpretation |-> "Failure likely"],
   [failureProbability |-> 12, riskLevel |-> "SAFE",
    interpretation |-> "Normal operation"],
   [failureProbability |-> 150, riskLevel |-> "CRITICAL",
    interpretation |-> "Failure imminent"],
   [failureProbability |-> 0, riskLevel |-> "SAFE",
    interpretation |-> "No failure expected"]}

ManualOutcomes ==
  {[kind |-> "ok", data |-> Some(d), message |-> ""] : d \in ApiResponses}
  \cup {[kind |-> "notOk", data |-> <<>>, message |-> t] :
          t \in {"", "upstream unavailable"}}
  \cup {[kind |-> "badJson", data |-> <<>>,
          message |-> "Unexpected end of JSON input"],
        [kind |-> "rejected", data |-> <<>>, message |-> "Failed to fetch"]}

\* err.message of the error caught for an outcome that is not a success:
\* new Error(errText || "Failed to send") for a non-OK response, otherwise
\* the message of the rejection.
ErrMessage(outcome) ==
  IF outcome.kind = "notOk"
    THEN (IF outcome.message # "" THEN outcome.message ELSE "Failed to send")
    ELSE outcome.message

\* The buttons that call handleSendToFriend, with their disabled condition.
ButtonEnabled(button) ==
  IF button = "Run ML Prediction" THEN ~(isPredicting \/ autoMode)
  ELSE ~isPredicting

SEND_URL == "/api/send_critical_data"

\* Math.sqrt on the integers: the largest r with r * r <= n, by bisection.
RECURSIVE Bisect(_, _, _)
Bisect(lo, hi, n) ==
  IF lo = hi THEN lo
  ELSE LET mid == (lo + hi + 1) \div 2
       IN IF mid * mid <= n THEN Bisect(mid, hi, n) ELSE Bisect(lo, mid - 1, n)

Sqrt(n) == Bisect(0, 46340, n)

\* parseFloat(Math.sqrt(x^2 + y^2 + z^2).toFixed(3)), in thousandths: the
\* thousandth nearest to the root.  With the components in hundredths the
\* root is sqrt(100 * s) thousandths for s the sum of the squares, and r is
\* nearest to it when (2r - 1)^2 <= 400 * s < (2r + 1)^2.  Evaluated for
\* components below 13.00, where 400 * s stays within the integers of TLC.
vibrationMagnitude(p) ==
  LET s == p.vibrationX * p.vibrationX + p.vibrationY * p.vibrationY
             + p.vibrationZ * p.vibrationZ
  IN (Sqrt(400 * s) + 1) \div 2

\* machine?.name || "Unknown Machine"
machineName ==
  IF Len(machines) = 0 THEN "Unknown Machine"
  ELSE IF machine.name = "" THEN "Unknown Machine"
  ELSE machine.name

\* Readings of Date.now().
Clock == {1, 2}

\* The payload of the request, built from the state of the render.
manualPayloadDropsRunning(now) ==
  [timestamp |-> now, machineId |-> selectedMachineId,
   machineName |-> machineName,
   rpm |-> params.rpm, torque |-> params.torque,
   loadWeight |-> params.loadWeight, motorTemp |-> params.motorTemp,
   windingTemp |-> params.windingTemp, bearingTemp |-> params.bearingTemp,
   ambientTemp |-> params.ambientTemp, vibrationX |-> params.vibrationX,
   vibrationY |-> params.vibrationY, vibrationZ |-> params.vibrationZ,
   vibrationMagnitude |-> vibrationMagnitude(params),
   voltage |-> params.voltage, current |-> params.current,
   powerConsumption |-> params.powerConsumption,
   powerFactor |-> params.powerFactor,
   harmonicDistortion |-> params.harmonicDistortion,
   efficiency |-> params.efficiency, operatingHours |-> params.operatingHours,
   startStopCycles |-> params.startStopCycles, wearLevel |-> params.wearLevel,
   bearingWear |-> params.bearingWear,
   insulationResistance |-> params.insulationResistance,
   humidity |-> params.humidity]

manualPayload(now) ==
  [timestamp |-> now, machineId |-> selectedMachineId,
   machineName |-> machineName,
   rpm |-> params.rpm, torque |-> params.torque,
   loadWeight |-> params.loadWeight, motorTemp |-> params.motorTemp,
   windingTemp |-> params.windingTemp, bearingTemp |-> params.bearingTemp,
   ambientTemp |-> params.ambientTemp, vibrationX |-> params.vibrationX,
   vibrationY |-> params.vibrationY, vibrationZ |-> params.vibrationZ,
   vibrationMagnitude |-> vibrationMagnitude(params),
   voltage |-> params.voltage, current |-> params.current,
   powerConsumption |-> params.powerConsumption,
   powerFactor |-> params.powerFactor,
   harmonicDistortion |-> params.harmonicDistortion,
   efficiency |-> params.efficiency, operatingHours |-> params.operatingHours,
   startStopCycles |-> params.startStopCycles, wearLevel |-> params.wearLevel,
   bearingWear |-> params.bearingWear,
   insulationResistance |-> params.insulationResistance,
   humidity |-> params.humidity, isRunning |-> params.rpm > 0]

\* The synchronous part, up to the await of fetch.  The buttons are there
\* while the view is rendered.  Of a request the model also notes whether
\* Reset Defaults was clicked while it was in flight (reset).
handleSendToFriend(button) ==
  /\ effect # "cleaned"
  /\ ButtonEnabled(button)
  /\ manualSent < MaxManual
  /\ isPredicting' = TRUE
  /\ predictionStatus' = Null
  /\ statusTimer' = StatusEffect(Null, predictionStatus, statusTimer)
  /\ \E now \in Clock :
       manual' = Some([pc |-> "awaiting", url |-> SEND_URL,
                       body |-> manualPayload(now), params |-> params,
                       machineId |-> selectedMachineId, response |-> Null,
                       reset |-> FALSE])
  /\ manualSent' = manualSent + 1
  /\ UNCHANGED <<pageVars, senderVars, readVars>>
  /\ UNCHANGED <<paramVars, result, selectedMachineId, pollVars>>

\* The rest of the handler, which runs when the request settles.
ManualSettleKeepsSpinner(outcome) ==
  /\ manual # Null
  /\ Get(manual).pc = "awaiting"
  /\ manual' = Some([Get(manual) EXCEPT !.pc = "settled",
                                        !.response = Some(outcome)])
  /\ IF outcome.kind = "ok"
       THEN /\ result' = outcome.data
            /\ predictionStatus' = Some("Prediction received!")
            /\ isPredicting' = FALSE
       ELSE /\ result' = result
            /\ predictionStatus' = Some("Error: " \o ErrMessage(outcome))
            /\ isPredicting' = isPredicting
  /\ statusTimer' = StatusEffect(predictionStatus', predictionStatus, statusTimer)
  /\ UNCHANGED <<pageVars, senderVars, readVars>>
  /\ UNCHANGED <<paramVars, manualSent, selectedMachineId, pollVars>>

ManualSettleRetries(outcome) ==
  /\ manual # Null
  /\ Get(manual).pc = "awaiting"
  /\ IF outcome.kind = "ok"
       THEN /\ result' = outcome.data
            /\ predictionStatus' = Some("Prediction received!")
            /\ isPredicting' = FALSE
            /\ manual' = Some([Get(manual) EXCEPT !.pc = "settled",
                                                  !.response = Some(outcome)])
            /\ UNCHANGED manualSent
       ELSE /\ result' = result
            /\ predictionStatus' = Some("Error: " \o ErrMessage(outcome))
            /\ isPredicting' = (manualSent < MaxManual)
            /\ manual' = IF manualSent < MaxManual THEN manual
                         ELSE Some([Get(manual) EXCEPT !.pc = "settled",
                                                       !.response = Some(outcome)])
            /\ manualSent' = IF manualSent < MaxManual THEN manualSent + 1
                             ELSE manualSent
  /\ statusTimer' = StatusEffect(predictionStatus', predictionStatus, statusTimer)
  /\ UNCHANGED <<pageVars, senderVars, readVars>>
  /\ UNCHANGED <<paramVars, selectedMachineId, pollVars>>

ManualSettle(outcome) ==
  /\ manual # Null
  /\ Get(manual).pc = "awaiting"
  /\ manual' = Some([Get(manual) EXCEPT !.pc = "settled",
                                        !.response = Some(outcome)])
  /\ IF outcome.kind = "ok"
       THEN /\ result' = outcome.data
            /\ predictionStatus' = Some("Prediction received!")
       ELSE /\ result' = result
            /\ predictionStatus' = Some("Error: " \o ErrMessage(outcome))
  /\ statusTimer' = StatusEffect(predictionStatus', predictionStatus, statusTimer)
  /\ isPredicting' = FALSE
  /\ UNCHANGED <<pageVars, senderVars, readVars>>
  /\ UNCHANGED <<paramVars, manualSent, selectedMachineId, pollVars>>

\* The request of a view that has been unmounted settles: the handler runs
\* its setResult, setPredictionStatus and setIsPredicting on a component
\* that is gone, which React ignores.
ManualSettleDetached(outcome) ==
  /\ manual # Null
  /\ Get(manual).pc = "detached"
  /\ manual' = Some([Get(manual) EXCEPT !.pc = "dropped",
                                        !.response = Some(outcome)])
  /\ UNCHANGED <<pageVars, senderVars, readVars>>
  /\ UNCHANGED <<paramVars, result, isPredicting, predictionStatus, statusTimer,
                 manualSent, selectedMachineId, pollVars>>

(***************************************************************************)
(* ManualParameterSender: the form and its submit.                         *)
(***************************************************************************)
\* The input type the form gives a field: typeof value.
FieldType == [machineId |-> "text", rpm |-> "number", isRunning |-> "checkbox"]

\* What the user can leave in an input: e.target.value and e.target.checked.
InputTexts == [text |-> {"m1", "m2"}, number |-> {"", "1500.5"}, checkbox |-> {"on"}]

\* Number(value) for the text of a number input, in thousandths.
Number(text) == IF text = "" THEN 0 ELSE 1500500

handleFormChange(name, value, checked) ==
  /\ formData' =
       [formData EXCEPT ![name] =
          IF FieldType[name] = "checkbox" THEN checked
          ELSE IF FieldType[name] = "number" THEN Number(value)
          ELSE value]
  /\ UNCHANGED <<response, loading, error, submits>>
  /\ UNCHANGED <<pageVars, paramVars, manualVars, pollVars, readVars>>

\* What POST /api/send_critical_data can come back with for the form: a body
\* that is any JSON value (Null is the JSON null), a non-OK response whose
\* body has a detail, has none or is not JSON, a body that does not parse, a
\* rejected fetch.
SubmitOutcomes ==
  {[kind |-> "ok", data |-> d, statusText |-> "OK"] :
     d \in {Some(r) : r \in ApiResponses} \cup {Null}}
  \cup {[kind |-> "notOk", data |-> d, statusText |-> t] :
          d \in {Some("model not loaded"), Some(""), Null},
          t \in {"Internal Server Error", ""}}
  \cup {[kind |-> "badJson", data |-> Null, statusText |-> "OK"],
        [kind |-> "rejected", data |-> Null, statusText |-> ""]}

\* err.message of what handleSubmit catches.  For a non-OK response:
\*   errorData = await res.json().catch(() => ({ detail: res.statusText }))
\*   new Error(errorData.detail || `Error: ${res.status} ${res.statusText}`)
SubmitErrMessage(outcome) ==
  IF outcome.kind = "notOk" THEN
    LET detail == IF outcome.data = Null THEN outcome.statusText
                  ELSE Get(outcome.data)
    IN IF detail # "" THEN detail ELSE "Error: 500 " \o outcome.statusText
  ELSE IF outcome.kind = "badJson" THEN "Unexpected end of JSON input"
  ELSE "Failed to fetch"

\* The synchronous part of handleSubmit, up to the await of fetch.  The
\* submit button is disabled while loading.
handleSubmit ==
  /\ ~loading
  /\ Len(submits) < MaxSubmits
  /\ loading' = TRUE
  /\ error' = Null
  /\ response' = Null
  /\ submits' = Append(submits, [url |-> SEND_URL, body |-> formData])
  /\ UNCHANGED formData
  /\ UNCHANGED <<pageVars, paramVars, manualVars, pollVars, readVars>>

\* The rest of handleSubmit, which runs when the request settles.
SubmitSettleKeepsError(outcome) ==
  /\ loading
  /\ IF outcome.kind = "ok"
       THEN response' = outcome.data /\ error' = Some("Failed to fetch")
       ELSE error' = Some(SubmitErrMessage(outcome)) /\ UNCHANGED response
  /\ loading' = FALSE
  /\ UNCHANGED <<formData, submits>>
  /\ UNCHANGED <<pageVars, paramVars, manualVars, pollVars, readVars>>

SubmitSettle(outcome) ==
  /\ loading
  /\ IF outcome.kind = "ok"
       THEN response' = outcome.data /\ UNCHANGED error
       ELSE error' = Some(SubmitErrMessage(outcome)) /\ UNCHANGED response
  /\ loading' = FALSE
  /\ UNCHANGED <<formData, submits>>
  /\ UNCHANGED <<pageVars, paramVars, manualVars, pollVars, readVars>>

(***************************************************************************)
(* The risk the view displays.  A probability is held in hundredths, so    *)
(* Math.round(p * 100) is MathRound(100 * p, 100).                         *)
(***************************************************************************)
\* failureProbability !== null ? Math.round(failureProbability * 100) : null
autoRisk ==
  IF failureProbability # Null
    THEN Some(MathRound(100 * Get(failureProbability), 100))
    ELSE Null

\* result?.failureProbability ? Math.round(result.failureProbability * 100) : null
predictedRiskPercentage ==
  IF result # Null /\ Get(result).failureProbability # 0
    THEN Some(MathRound(100 * Get(result).failureProbability, 100))
    ELSE Null

\* predictedRiskPercentage ?? autoRisk ?? derived.riskScore
currentRisk ==
  IF predictedRiskPercentage # Null THEN Get(predictedRiskPercentage)
  ELSE IF autoRisk # Null THEN Get(autoRisk)
  ELSE derived(params).riskScore

\* {100 - currentRisk}%
healthScore == 100 - currentRisk

\* result?.riskLevel ?? null
predictedRiskLevel == IF result # Null THEN Some(Get(result).riskLevel) ELSE Null

\* predictedRiskLevel ?? (currentRisk > 70 ? 'CRITICAL'
\*                        : currentRisk > 40 ? 'WARNING' : 'SAFE')
currentRiskLevel ==
  IF predictedRiskLevel # Null THEN Get(predictedRiskLevel)
  ELSE IF currentRisk > 70 THEN "CRITICAL"
  ELSE IF currentRisk > 40 THEN "WARNING"
  ELSE "SAFE"

\* The class of the Predicted Risk tile:
\* currentRisk < 40 ? 'stat-ok' : currentRisk < 70 ? 'stat-warn' : 'stat-alert'
riskTileClass ==
  IF currentRisk < 40 THEN "stat-ok"
  ELSE IF currentRisk < 70 THEN "stat-warn"
  ELSE "stat-alert"

(***************************************************************************)
(* Telemetry.  A TelemetrySample is held as its timestamp and the index of *)
(* its reading in SampleReadings, which gives the numeric fields (in       *)
(* hundredths).  The endpoint stamps the samples it serves 1, 2, 3, ...    *)
(***************************************************************************)
TELEMETRY_URL == "http://localhost:8000/telemetry"
PREDICT_URL == "http://localhost:8000/predict"
HARDWARE_URL == "http://localhost:8000/hardware"
RETRAIN_URL == "http://localhost:8000/retrain"
DEFAULT_FAILURE_THRESHOLD == 60
BUFFER_CAP == 200
PREDICT_MIN_SAMPLES == 50
SEQUENCE_LENGTH == 50

failureThreshold == DEFAULT_FAILURE_THRESHOLD

\* const statusLabel = autoMode ? (failureProbability === null ? 'PENDING'
\*   : failureProbability >= failureThreshold ? 'CRITICAL' : 'SAFE') : 'MANUAL'
statusLabel ==
  IF autoMode
    THEN (IF failureProbability = Null THEN "PENDING"
          ELSE IF Get(failureProbability) >= failureThreshold THEN "CRITICAL"
          ELSE "SAFE")
    ELSE "MANUAL"

SampleReadings ==
  << [rpm |-> 101250, torque |-> 13149, loadWeight |-> 7050, motorTemp |-> 19149,
      windingTemp |-> 18850, bearingTemp |-> 16551, ambientTemp |-> 3049,
      vibrationX |-> 312, vibrationY |-> 287, vibrationZ |-> 301,
      voltage |-> 39820, current |-> 2415, powerConsumption |-> 1930,
      powerFactor |-> 84, harmonicDistortion |-> 310, efficiency |-> 8650,
      insulationResistance |-> 1150, operatingHours |-> 420150,
      startStopCycles |-> 1500, wearLevel |-> 1849, bearingWear |-> 2951,
      humidity |-> 5150],
     [rpm |-> 99949, torque |-> 11850, loadWeight |-> 6349, motorTemp |-> 18650,
      windingTemp |-> 18749, bearingTemp |-> 16149, ambientTemp |-> 2950,
      vibrationX |-> 198, vibrationY |-> 225, vibrationZ |-> 240,
      voltage |-> 40110, current |-> 2180, powerConsumption |-> 1790,
      powerFactor |-> 91, harmonicDistortion |-> 205, efficiency |-> 8910,
      insulationResistance |-> 1230, operatingHours |-> 420250,
      startStopCycles |-> 1500, wearLevel |-> 1851, bearingWear |-> 2949,
      humidity |-> 4749] >>

\* The sample the endpoint serves with timestamp t.
Sample(t) == [timestamp |-> t, reading |-> (t % 2) + 1]

Reading(sample) == SampleReadings[sample.reading]

\* Math.round of a value held in hundredths, again in hundredths.
JsRound(v) == MathRound(v, 100) * 100

\* getLatestSample(payload).  An array payload is [kind |-> "array", items];
\* an object payload is [kind |-> "object", machines], machines being Null
\* or the sequence of its <<key, series>> entries in Object.keys order.
\* machineKey is undefined for an object without keys and falsy for the
\* key ""; either way series is null.
getLatestSampleOfSelected(payload) ==
  IF payload = Null THEN Null
  ELSE LET pl == Get(payload) IN
    IF pl.kind = "array"
      THEN (IF Len(pl.items) # 0 THEN Some(pl.items[Len(pl.items)]) ELSE Null)
    ELSE IF pl.machines = Null THEN Null
    ELSE LET entries == Get(pl.machines)
             own == {k \in 1..Len(entries) : entries[k][1] = selectedMachineId}
             first == IF own # {} THEN CHOOSE k \in own : TRUE ELSE 1
             series == IF Len(entries) # 0 /\ entries[first][1] # ""
                         THEN entries[first][2] ELSE <<>>
         IN IF Len(series) = 0 THEN Null ELSE Some(series[Len(series)])

getLatestSample(payload) ==
  IF payload = Null THEN Null
  ELSE LET pl == Get(payload) IN
    IF pl.kind = "array"
      THEN (IF Len(pl.items) # 0 THEN Some(pl.items[Len(pl.items)]) ELSE Null)
    ELSE IF pl.machines = Null THEN Null
    ELSE LET entries == Get(pl.machines)
             series == IF Len(entries) # 0 /\ entries[1][1] # ""
                         THEN entries[1][2] ELSE <<>>
         IN IF Len(series) = 0 THEN Null ELSE Some(series[Len(series)])

\* mapSampleToParams(sample, previous)
mapSampleToParams(sample, previous) ==
  LET r == Reading(sample) IN
  [previous EXCEPT
     !.rpm = JsRound(r.rpm), !.torque = JsRound(r.torque),
     !.loadWeight = JsRound(r.loadWeight),
     !.vibrationX = r.vibrationX, !.vibrationY = r.vibrationY,
     !.vibrationZ = r.vibrationZ,
     !.voltage = r.voltage, !.current = r.current,
     !.powerConsumption = r.powerConsumption, !.powerFactor = r.powerFactor,
     !.harmonicDistortion = r.harmonicDistortion, !.efficiency = r.efficiency,
     !.insulationResistance = r.insulationResistance,
     !.motorTemp = JsRound(r.motorTemp), !.windingTemp = JsRound(r.windingTemp),
     !.bearingTemp = JsRound(r.bearingTemp), !.ambientTemp = JsRound(r.ambientTemp),
     !.operatingHours = JsRound(r.operatingHours),
     !.startStopCycles = JsRound(r.startStopCycles),
     !.wearLevel = JsRound(r.wearLevel), !.bearingWear = JsRound(r.bearingWear),
     !.humidity = JsRound(r.humidity)]

\* buildPredictPayload(sequence): every sample copied field by field.
buildPredictPayload(sequence) ==
  [sequence |-> [i \in 1..Len(sequence) |->
                   [timestamp |-> sequence[i].timestamp,
                    reading |-> sequence[i].reading]]]

\* buffer.push(latestSample); if (buffer.length > 200) buffer.splice(0, buffer.length - 200)
pushSampleKeepOldest(buf, sample) ==
  LET b == Append(buf, sample) IN
  IF Len(b) > BUFFER_CAP THEN SubSeq(b, 1, BUFFER_CAP) ELSE b

pushSample(buf, sample) ==
  LET b == Append(buf, sample) IN
  IF Len(b) > BUFFER_CAP THEN SubSeq(b, Len(b) - BUFFER_CAP + 1, Len(b)) ELSE b

\* buffer.slice(-n)
sliceFirst(buf, n) == SubSeq(buf, 1, Min(n, Len(buf)))
sliceLast(buf, n) == SubSeq(buf, Max(1, Len(buf) - n + 1), Len(buf))

\* Number(predictJson.failure_probability ?? predictJson.failureProbability
\*        ?? predictJson.failure ?? 0), each field Null when absent.
nextFailureOf(predictJson) ==
  IF predictJson.failure_probability # Null THEN Get(predictJson.failure_probability)
  ELSE IF predictJson.failureProbability # Null THEN Get(predictJson.failureProbability)
  ELSE IF predictJson.failure # Null THEN Get(predictJson.failure)
  ELSE 0

\* const isCritical = nextFailure >= failureThreshold
isCriticalStrict(nextFailure) == nextFailure > failureThreshold
isCritical(nextFailure) == nextFailure >= failureThreshold

(***************************************************************************)
(* What the endpoints can answer.                                          *)
(***************************************************************************)
\* Telemetry payloads that carry the sample s as their latest sample.
PayloadsWith(s) ==
  {Some([kind |-> "array", items |-> <<s>>, machines |-> Null]),
   Some([kind |-> "object", items |-> <<>>,
         machines |-> Some(<< <<"B1", <<s>> >> >>)])}

\* Telemetry payloads without a sample.
PayloadsWithout ==
  {Null,
   Some([kind |-> "array", items |-> <<>>, machines |-> Null]),
   Some([kind |-> "object", items |-> <<>>, machines |-> Null]),
   Some([kind |-> "object", items |-> <<>>, machines |-> Some(<< <<"B1", <<>> >> >>)])}

TelemetryOutcomes(s) ==
  {[kind |-> "ok", payload |-> pl] : pl \in PayloadsWith(s) \cup PayloadsWithout}
  \cup {[kind |-> "notOk", payload |-> Null], [kind |-> "rejected", payload |-> Null]}

PredictJsons ==
  {[failure_probability |-> Some(90), failureProbability |-> Null, failure |-> Null],
   [failure_probability |-> Null, failureProbability |-> Some(60), failure |-> Null],
   [failure_probability |-> Null, failureProbability |-> Null, failure |-> Some(30)]}

PredictOutcomes ==
  {[kind |-> "ok", json |-> Some(j)] : j \in PredictJsons}
  \cup {[kind |-> "notOk", json |-> Null], [kind |-> "rejected", json |-> Null]}

\* Whether an outcome makes fetchTelemetry throw: a rejected fetch, a
\* response that is not OK, or a payload without a sample.
TelemetryThrows(outcome) ==
  \/ outcome.kind = "rejected"
  \/ outcome.kind = "notOk"
  \/ getLatestSample(outcome.payload) = Null

PredictThrows(outcome) == outcome.kind = "rejected" \/ outcome.kind = "notOk"

(***************************************************************************)
(* The polling effect.  A call of fetchTelemetry is a record of polls:     *)
(* where it stands (pc), its locals latestSample, sequence and nextFailure,*)
(* whether it caught an error, the requests it has issued (sent), and the  *)
(* fate of its retrain or hardware request (downstream): Null while none   *)
(* was sent, then "pending", then "fulfilled" or "rejected".               *)
(***************************************************************************)
Request(url, body) == [url |-> url, body |-> body]

NewPoll ==
  [pc |-> "telemetry", latestSample |-> Null, sequence |-> Null,
   nextFailure |-> Null, caught |-> FALSE,
   sent |-> <<Request(TELEMETRY_URL, Null)>>, downstream |-> Null]

\* let active = true ... return () => { active = false; ... }
active == effect = "active"

\* The component is unmounted when the effect is cleaned up (its dependencies
\* never change), and React drops the state updates of an unmounted component.
mounted == effect # "cleaned"

\* useEffect(() => { if (!autoMode) return; ... fetchTelemetry();
\*                   const interval = setInterval(fetchTelemetry, TELEMETRY_POLL_MS) })
PollingEffectIgnoresMode ==
  /\ effect = "pending"
  /\ effect' = "active"
  /\ polls' = Append(polls, NewPoll)
  /\ interval' = Some(TELEMETRY_POLL_MS)
  /\ UNCHANGED <<pageVars, senderVars, readVars>>
  /\ UNCHANGED <<paramVars, manualVars, autoMode, failureProbability, lastUpdate,
                 buffer, samplesServed>>

PollingEffect ==
  /\ effect = "pending"
  /\ IF ~autoMode
       THEN /\ effect' = "skipped"
            /\ UNCHANGED <<polls, interval>>
       ELSE /\ effect' = "active"
            /\ polls' = Append(polls, NewPoll)
            /\ interval' = Some(TELEMETRY_POLL_MS)
  /\ UNCHANGED <<pageVars, senderVars, readVars>>
  /\ UNCHANGED <<paramVars, manualVars, autoMode, failureProbability, lastUpdate,
                 buffer, samplesServed>>

\* The interval callback: fetchTelemetry().
IntervalFire ==
  /\ effect = "active"
  /\ interval = Some(0)
  /\ Len(polls) < MaxPolls
  /\ polls' = Append(polls, NewPoll)
  /\ interval' = Some(TELEMETRY_POLL_MS)
  /\ UNCHANGED <<pageVars, senderVars, readVars>>
  /\ UNCHANGED <<paramVars, manualVars, autoMode, failureProbability, lastUpdate,
                 buffer, effect, samplesServed>>

(***************************************************************************)
(* Rendering the page.  setActiveTab(tab) makes the page render the view   *)
(* of tab.  A view that was not shown is mounted with its initial state; a *)
(* view that is no longer shown is unmounted, which runs the cleanups of   *)
(* its effects; the view already shown keeps its state.                    *)
(***************************************************************************)
\* DigitalTwinSimulation is mounted: its useState and useRef initial values.
MountSimulation ==
  /\ params' = defaultParams
  /\ result' = Null
  /\ isPredicting' = FALSE
  /\ predictionStatus' = Null
  /\ statusTimer' = Null
  /\ failureProbability' = Null
  /\ lastUpdate' = Null
  /\ buffer' = <<>>
  /\ effect' = "pending"
  /\ interval' = Null
  /\ UNCHANGED <<edits, manual, manualSent, autoMode, polls, samplesServed>>

\* DigitalTwinSimulation is unmounted.  The cleanups of its effects run:
\* clearTimeout(timer) and active = false; clearInterval(interval).  No
\* cleanup aborts the fetch of handleSendToFriend: a request in flight stays
\* in flight, detached from the view that is gone.
UnmountSimulation ==
  /\ effect' = "cleaned"
  /\ interval' = Null
  /\ statusTimer' = Null
  /\ manual' = IF manual # Null /\ Get(manual).pc = "awaiting"
                 THEN Some([Get(manual) EXCEPT !.pc = "detached"])
                 ELSE manual
  /\ UNCHANGED <<paramVars, result, isPredicting, predictionStatus,
                 manualSent, autoMode, failureProbability, lastUpdate, buffer,
                 polls, samplesServed>>

\* DecisionsExplainability keeps its state only while it stays mounted.
RenderDecisionsKeepsState(tab) ==
  IF recommendations # <<>>
    THEN UNCHANGED <<recommendations, approvedAction>>
    ELSE recommendations' = aiRecommendations /\ approvedAction' = Null

RenderDecisions(tab) ==
  IF tab # "decisions"
    THEN recommendations' = <<>> /\ approvedAction' = Null
  ELSE IF activeTab = "decisions"
    THEN UNCHANGED <<recommendations, approvedAction>>
  ELSE recommendations' = aiRecommendations /\ approvedAction' = Null

setActiveTab(tab) ==
  /\ activeTab' = tab
  /\ lineStatus' = IF tab = "dashboard" THEN Some(getProductionLineStatus) ELSE Null
  /\ warningCount' =
       IF tab = "dashboard" THEN Some(CountStatus({"warning", "critical"}))
       ELSE Null
  /\ RenderDecisions(tab)
  /\ IF tab = "simulation" /\ activeTab # "simulation" THEN MountSimulation
     ELSE IF tab # "simulation" /\ activeTab = "simulation" THEN UnmountSimulation
     ELSE UNCHANGED <<paramVars, result, isPredicting, predictionStatus,
                      statusTimer, manual, manualSent, pollVars>>
  /\ UNCHANGED <<machines, toasts, senderVars, readVars>>

\* Navigation: onClick={() => onTabChange(tab.id)}, with onTabChange={setActiveTab}.
onTabChange(tab) ==
  /\ setActiveTab(tab)
  /\ UNCHANGED selectedMachineId

\* The ids the machine cards and the machine selectors offer.
OfferedIdsFreeText == {"B1", "B2"}
OfferedIds == {machines[i].id : i \in 1..Len(machines)}

\* A machine card of the overview: onViewMachine(machine.id).
handleViewMachine(machineId) ==
  /\ activeTab = "dashboard"
  /\ selectedMachineId' = machineId
  /\ setActiveTab("machine")

\* The Approve, Reject and Re-simulate buttons of a recommendation.
ButtonsOfferedAlways(rec) == TRUE
ButtonsOffered(rec) == rec.approved = Null

\* Quick action of the overview, Simulate of the machine view, Re-simulate
\* Alternative of an undecided recommendation.
handleViewSimulationFirstMachine ==
  /\ \/ activeTab \in {"dashboard", "machine"}
     \/ /\ activeTab = "decisions"
        /\ \E i \in 1..Len(recommendations) : ButtonsOffered(recommendations[i])
  /\ setActiveTab("simulation")
  /\ selectedMachineId' = machines[1].id

handleViewSimulation ==
  /\ \/ activeTab \in {"dashboard", "machine"}
     \/ /\ activeTab = "decisions"
        /\ \E i \in 1..Len(recommendations) : ButtonsOffered(recommendations[i])
  /\ setActiveTab("simulation")
  /\ UNCHANGED selectedMachineId

\* Quick action of the overview, View Explanation of the machine view.
handleViewDecisions ==
  /\ activeTab \in {"dashboard", "machine"}
  /\ setActiveTab("decisions")
  /\ UNCHANGED selectedMachineId

\* The machine selector of MachineDetails and of DigitalTwinSimulation:
\* onValueChange={onMachineChange}, with onMachineChange={setSelectedMachineId}.
onMachineChange(id) ==
  /\ activeTab \in {"machine", "simulation"}
  /\ selectedMachineId' = id
  /\ UNCHANGED <<pageVars, senderVars, readVars, paramVars, result, isPredicting,
                 predictionStatus, statusTimer, manual, manualSent, pollVars>>

(***************************************************************************)
(* DecisionsExplainability.                                                *)
(***************************************************************************)
\* prev.map(r => r.id === id ? { ...r, approved: value } : r)
DecideAll(recs, id, value) ==
  [i \in 1..Len(recs) |-> [recs[i] EXCEPT !.approved = Some(value)]]

Decide(recs, id, value) ==
  [i \in 1..Len(recs) |->
     IF recs[i].id = id THEN [recs[i] EXCEPT !.approved = Some(value)]
     ELSE recs[i]]

handleApprove(id) ==
  /\ activeTab = "decisions"
  /\ \E i \in 1..Len(recommendations) :
       recommendations[i].id = id /\ ButtonsOffered(recommendations[i])
  /\ Len(toasts) < MaxDecisions
  /\ recommendations' = Decide(recommendations, id, TRUE)
  /\ approvedAction' = Some(id)
  /\ toasts' = Append(toasts, "success")
  /\ UNCHANGED <<activeTab, machines, lineStatus, warningCount, senderVars,
                 readVars, paramVars, manualVars, pollVars>>

handleReject(id) ==
  /\ activeTab = "decisions"
  /\ \E i \in 1..Len(recommendations) :
       recommendations[i].id = id /\ ButtonsOffered(recommendations[i])
  /\ Len(toasts) < MaxDecisions
  /\ recommendations' = Decide(recommendations, id, FALSE)
  /\ toasts' = Append(toasts, "info")
  /\ UNCHANGED <<activeTab, machines, lineStatus, warningCount, approvedAction,
                 senderVars, readVars, paramVars, manualVars, pollVars>>

\* The cleanup of the polling effect (active = false; clearInterval(interval)),
\* which runs when the page stops rendering the view.
Cleanup ==
  /\ effect = "active"
  /\ \E tab \in TabIds \ {"simulation"} : onTabChange(tab)

\* catch (error) { if (!active) return; setLastUpdate(null); }
CatchKeepsLastUpdate(lu) == lu
Catch(lu) == IF ~active THEN lu ELSE Null

\* The body of the retrain and hardware requests.
dispatchPayload(nextFailure, latestSample) ==
  [failure_probability |-> nextFailure,
   timestamp |-> latestSample.timestamp,
   sample |-> latestSample]

SetPoll(i, pc, sample, sequence, nextFailure, caught, requests) ==
  [polls EXCEPT ![i] =
     [pc |-> pc, latestSample |-> sample, sequence |-> sequence,
      nextFailure |-> nextFailure, caught |-> caught,
      sent |-> polls[i].sent \o requests,
      downstream |->
        IF \E k \in 1..Len(requests) :
             requests[k].url \in {RETRAIN_URL, HARDWARE_URL}
          THEN Some("pending")
          ELSE polls[i].downstream]]

\* fetchTelemetry from the answer of the telemetry endpoint up to the await
\* of the predict request, or to its end.
TelemetryResume(i, outcome) ==
  /\ i \in 1..Len(polls)
  /\ polls[i].pc = "telemetry"
  /\ LET latest == getLatestSample(outcome.payload) IN
     IF TelemetryThrows(outcome) THEN
       /\ polls' = SetPoll(i, "done", Null, Null, Null, TRUE, <<>>)
       /\ lastUpdate' = Catch(lastUpdate)
       /\ UNCHANGED <<params, buffer, samplesServed>>
     ELSE IF ~active THEN
       /\ polls' = SetPoll(i, "done", latest, Null, Null, FALSE, <<>>)
       /\ samplesServed' = samplesServed + 1
       /\ UNCHANGED <<params, buffer, lastUpdate>>
     ELSE
       LET sample == Get(latest)
           buf == pushSample(buffer, sample)
           sequence == sliceLast(buf, SEQUENCE_LENGTH)
       IN
       /\ samplesServed' = samplesServed + 1
       /\ lastUpdate' = Some(sample.timestamp)
       /\ params' = mapSampleToParams(sample, params)
       /\ buffer' = buf
       /\ polls' =
            IF Len(buf) >= PREDICT_MIN_SAMPLES
              THEN SetPoll(i, "predict", latest, Some(sequence), Null, FALSE,
                           <<Request(PREDICT_URL,
                                     Some(buildPredictPayload(sequence)))>>)
              ELSE SetPoll(i, "done", latest, Null, Null, FALSE, <<>>)
  /\ UNCHANGED <<pageVars, senderVars, readVars>>
  /\ UNCHANGED <<edits, manualVars, autoMode, failureProbability, effect, interval>>

\* fetchTelemetry from the answer of the predict endpoint to its end.
PredictResumeNewestOnly(i, outcome) ==
  /\ i \in 1..Len(polls)
  /\ polls[i].pc = "predict"
  /\ LET p == polls[i] IN
     IF PredictThrows(outcome) THEN
       /\ polls' = SetPoll(i, "done", p.latestSample, p.sequence, Null, TRUE, <<>>)
       /\ lastUpdate' = Catch(lastUpdate)
       /\ UNCHANGED failureProbability
     ELSE
       LET nextFailure == nextFailureOf(Get(outcome.json))
           payload == dispatchPayload(nextFailure, Get(p.latestSample))
       IN
       /\ failureProbability' =
            IF mounted /\ i = Len(polls) THEN Some(nextFailure)
            ELSE failureProbability
       /\ polls' =
            SetPoll(i, "done", p.latestSample, p.sequence, Some(nextFailure), FALSE,
                    IF isCritical(nextFailure)
                      THEN <<Request(RETRAIN_URL,
                                     Some([payload |-> payload,
                                           sequence |-> p.sequence]))>>
                      ELSE <<Request(HARDWARE_URL,
                                     Some([payload |-> payload,
                                           sequence |-> Null]))>>)
       /\ UNCHANGED lastUpdate
  /\ UNCHANGED <<pageVars, senderVars, readVars>>
  /\ UNCHANGED <<paramVars, manualVars, autoMode, buffer, effect, interval,
                 samplesServed>>

PredictResumeUnsetsFailure(i, outcome) ==
  /\ i \in 1..Len(polls)
  /\ polls[i].pc = "predict"
  /\ LET p == polls[i] IN
     IF PredictThrows(outcome) THEN
       /\ polls' = SetPoll(i, "done", p.latestSample, p.sequence, Null, TRUE, <<>>)
       /\ lastUpdate' = Catch(lastUpdate)
       /\ failureProbability' = Null
     ELSE
       LET nextFailure == nextFailureOf(Get(outcome.json))
           payload == dispatchPayload(nextFailure, Get(p.latestSample))
       IN
       /\ failureProbability' =
            IF mounted THEN Some(nextFailure) ELSE failureProbability
       /\ polls' =
            SetPoll(i, "done", p.latestSample, p.sequence, Some(nextFailure), FALSE,
                    IF isCritical(nextFailure)
                      THEN <<Request(RETRAIN_URL,
                                     Some([payload |-> payload,
                                           sequence |-> p.sequence]))>>
                      ELSE <<Request(HARDWARE_URL,
                                     Some([payload |-> payload,
                                           sequence |-> Null]))>>)
       /\ UNCHANGED lastUpdate
  /\ UNCHANGED <<pageVars, senderVars, readVars>>
  /\ UNCHANGED <<paramVars, manualVars, autoMode, buffer, effect, interval,
                 samplesServed>>

PredictResume(i, outcome) ==
  /\ i \in 1..Len(polls)
  /\ polls[i].pc = "predict"
  /\ LET p == polls[i] IN
     IF PredictThrows(outcome) THEN
       /\ polls' = SetPoll(i, "done", p.latestSample, p.sequence, Null, TRUE, <<>>)
       /\ lastUpdate' = Catch(lastUpdate)
       /\ UNCHANGED failureProbability
     ELSE
       LET nextFailure == nextFailureOf(Get(outcome.json))
           payload == dispatchPayload(nextFailure, Get(p.latestSample))
       IN
       /\ failureProbability' =
            IF mounted THEN Some(nextFailure) ELSE failureProbability
       /\ polls' =
            SetPoll(i, "done", p.latestSample, p.sequence, Some(nextFailure), FALSE,
                    IF isCritical(nextFailure)
                      THEN <<Request(RETRAIN_URL,
                                     Some([payload |-> payload,
                                           sequence |-> p.sequence]))>>
                      ELSE <<Request(HARDWARE_URL,
                                     Some([payload |-> payload,
                                           sequence |-> Null]))>>)
       /\ UNCHANGED lastUpdate
  /\ UNCHANGED <<pageVars, senderVars, readVars>>
  /\ UNCHANGED <<paramVars, manualVars, autoMode, buffer, effect, interval,
                 samplesServed>>

\* The promise of void fetch(RETRAIN_URL, ...) or void fetch(HARDWARE_URL, ...)
\* settles.  Nothing awaits it and it has no handler.
DownstreamSettleCaught(i, outcome) ==
  /\ i \in 1..Len(polls)
  /\ polls[i].downstream = Some("pending")
  /\ polls' = [polls EXCEPT ![i].downstream = Some(outcome)]
  /\ lastUpdate' = IF outcome = "rejected" THEN Catch(lastUpdate) ELSE lastUpdate
  /\ UNCHANGED <<pageVars, senderVars, readVars>>
  /\ UNCHANGED <<paramVars, manualVars, autoMode, failureProbability, buffer,
                 effect, interval, samplesServed>>

DownstreamSettle(i, outcome) ==
  /\ i \in 1..Len(polls)
  /\ polls[i].downstream = Some("pending")
  /\ polls' = [polls EXCEPT ![i].downstream = Some(outcome)]
  /\ UNCHANGED <<pageVars, senderVars, readVars>>
  /\ UNCHANGED <<paramVars, manualVars, autoMode, failureProbability, lastUpdate,
                 buffer, effect, interval, samplesServed>>

(***************************************************************************)
(* SpecPoll: the view with the polling effect running.  The effect body    *)
(* runs only under autoMode, which the source initialises to false and     *)
(* never sets; SpecPoll starts the view with autoMode true and so          *)
(* describes what the effect does once it is active.  A behaviour starts   *)
(* at the mount of the component, or after k polls that each fetched one   *)
(* sample and completed in turn, so that the thresholds of 50 and 200      *)
(* buffered samples are within reach.                                      *)
(***************************************************************************)
PrefillLengths == {0, 49, 199}

Prefill(k) == [t \in 1..k |-> Sample(t)]

InitPoll ==
  /\ edits = 0
  /\ InitManual
  /\ InitPage("simulation")
  /\ InitSender /\ InitRead
  /\ autoMode = TRUE
  /\ polls = <<>>
  /\ \E k \in PrefillLengths :
       /\ samplesServed = k
       /\ buffer = Prefill(k)
       /\ IF k = 0
            THEN /\ params = defaultParams
                 /\ effect = "pending"
                 /\ interval = Null
                 /\ lastUpdate = Null
                 /\ failureProbability = Null
            ELSE /\ params = mapSampleToParams(Sample(k), defaultParams)
                 /\ effect = "active"
                 /\ interval = Some(TELEMETRY_POLL_MS)
                 /\ lastUpdate = Some(k)
                 /\ failureProbability =
                      IF k >= PREDICT_MIN_SAMPLES THEN Some(30) ELSE Null

TelemetryAnswers ==
  \E i \in 1..Len(polls) :
    \E outcome \in TelemetryOutcomes(Sample(samplesServed + 1)) :
      TelemetryResume(i, outcome)

PredictAnswers ==
  \E i \in 1..Len(polls) : \E outcome \in PredictOutcomes : PredictResume(i, outcome)

NextPoll ==
  \/ PollingEffect
  \/ IntervalFire
  \/ TelemetryAnswers
  \/ PredictAnswers
  \/ Cleanup
  \/ TimePasses
  \/ resetToDefault

SpecPoll == InitPoll /\ [][NextPoll]_vars

(***************************************************************************)
(* SpecDispatch: SpecPoll together with the answers to the retrain and     *)
(* hardware requests.                                                      *)
(***************************************************************************)
DownstreamAnswers ==
  \E i \in 1..Len(polls) :
    \E outcome \in {"fulfilled", "rejected"} : DownstreamSettle(i, outcome)

\* The effect is already active, so PollingEffect has run.
NextDispatch ==
  \/ IntervalFire
  \/ TelemetryAnswers
  \/ PredictAnswers
  \/ DownstreamAnswers
  \/ Cleanup
  \/ TimePasses
  \/ resetToDefault

\* The buffer is one sample short of the first prediction.
InitDispatch == InitPoll /\ Len(buffer) = PREDICT_MIN_SAMPLES - 1

SpecDispatch == InitDispatch /\ [][NextDispatch]_vars

(***************************************************************************)
(* SpecManual: the view in manual mode (autoMode is false): the manual     *)
(* prediction request, its status message and Reset Defaults.              *)
(***************************************************************************)
NextManual ==
  \/ \E button \in {"Run ML Prediction", "SEND 27 PARAMETERS"} :
       handleSendToFriend(button)
  \/ \E outcome \in ManualOutcomes : ManualSettle(outcome)
  \/ StatusTimerFire
  \/ TimePasses
  \/ resetToDefault
  \/ PollingEffect

SpecManual == Init /\ [][NextManual]_vars

\* The program as shipped starts in manual mode.
Next == NextManual
Spec == Init /\ [][Next]_vars

\* The browser runs a timer whose time is up, and time does not stand still
\* while a timer is pending.
FairManual ==
  /\ WF_vars(StatusTimerFire)
  /\ WF_vars(TimePasses)

SpecManualLive == SpecManual /\ FairManual

(***************************************************************************)
(* SpecView: the view in manual mode on the page: SpecManual together with *)
(* the navigation bar, which unmounts the view and mounts it again.        *)
(***************************************************************************)
NextView ==
  \/ NextManual
  \/ \E tab \in TabIds : onTabChange(tab)
  \/ \E outcome \in ManualOutcomes : ManualSettleDetached(outcome)

SpecView == Init /\ [][NextView]_vars

\* Besides the timers of the browser, a request in flight is answered.
FairView ==
  /\ FairManual
  /\ WF_vars(\E outcome \in ManualOutcomes : ManualSettle(outcome))
  /\ WF_vars(\E outcome \in ManualOutcomes : ManualSettleDetached(outcome))

SpecViewLive == SpecView /\ FairView

(***************************************************************************)
(* SpecDerived: the parameter panel alone, which drives derived.           *)
(***************************************************************************)
NextDerived ==
  \/ \E key \in ParamKeys, value \in ParamInputs : updateNumber(key, value)
  \/ resetToDefault

SpecDerived == Init /\ [][NextDerived]_vars

(***************************************************************************)
(* SpecIndex: the page from its first render, with the Overview tab shown  *)
(* and no other view mounted yet: the tabs, the machine selection and the  *)
(* approval of recommendations.                                            *)
(***************************************************************************)
InitIndex ==
  /\ InitParams /\ InitManual
  /\ autoMode = FALSE
  /\ failureProbability = Null
  /\ lastUpdate = Null
  /\ buffer = <<>>
  /\ effect = "cleaned"
  /\ interval = Null
  /\ polls = <<>>
  /\ samplesServed = 0
  /\ InitPage("dashboard") /\ InitSender /\ InitRead

NextIndex ==
  \/ \E tab \in TabIds : onTabChange(tab)
  \/ \E machineId \in OfferedIds : handleViewMachine(machineId)
  \/ handleViewSimulation
  \/ handleViewDecisions
  \/ \E id \in OfferedIds : onMachineChange(id)
  \/ \E i \in 1..Len(recommendations) : handleApprove(recommendations[i].id)
  \/ \E i \in 1..Len(recommendations) : handleReject(recommendations[i].id)
  \/ PollingEffect

SpecIndex == InitIndex /\ [][NextIndex]_vars

(***************************************************************************)
(* SpecSender: ManualParameterSender, its form and its submit.             *)
(***************************************************************************)
FormChanges ==
  \E name \in DOMAIN FieldType :
    \E value \in InputTexts[FieldType[name]], checked \in BOOLEAN :
      handleFormChange(name, value, checked)

SubmitSettles == \E outcome \in SubmitOutcomes : SubmitSettle(outcome)

NextSender ==
  \/ FormChanges
  \/ handleSubmit
  \/ SubmitSettles

SpecSender == Init /\ [][NextSender]_vars

(***************************************************************************)
(* SpecRequests: the two places that POST to /api/send_critical_data, the  *)
(* Digital Twin view in manual mode and the submit of                      *)
(* ManualParameterSender, side by side.                                    *)
(***************************************************************************)
NextRequests ==
  \/ NextManual
  \/ handleSubmit
  \/ SubmitSettles

SpecRequests == Init /\ [][NextRequests]_vars

(***************************************************************************)
(* SpecPayload: the parameter panel together with the manual prediction    *)
(* request, for the payload the request carries.  The edits are those of   *)
(* the fields the payload computes with.                                   *)
(***************************************************************************)
PayloadKeys == {"rpm", "vibrationX", "vibrationY", "vibrationZ"}
PayloadInputs == {-300, 0, 400}

\* The answers to the request: the fetch is rejected, or it succeeds.
PayloadOutcomes ==
  {outcome \in ManualOutcomes :
     \/ outcome.kind = "rejected"
     \/ outcome.kind = "ok" /\ Get(outcome.data).riskLevel = "SAFE"}

NextPayload ==
  \/ \E key \in PayloadKeys, value \in PayloadInputs : updateNumber(key, value)
  \/ \E button \in {"Run ML Prediction", "SEND 27 PARAMETERS"} :
       handleSendToFriend(button)
  \/ \E outcome \in PayloadOutcomes : ManualSettle(outcome)

SpecPayload == Init /\ [][NextPayload]_vars

(***************************************************************************)
(* SpecOverview: the page over any records the machinesData array may      *)
(* hold, from one record to MaxMachines, each with any status; the         *)
(* navigation that shows and leaves the overview.                          *)
(***************************************************************************)
MachineIds == <<"B1", "B2", "B3", "B4", "B5", "B6">>

MachineLists ==
  UNION {{[i \in 1..n |-> [id |-> MachineIds[i], name |-> "Boiler",
                          status |-> statuses[i]]] :
            statuses \in [1..n -> MachineStatus]} : n \in 1..MaxMachines}

InitOverview ==
  /\ InitParams /\ InitManual
  /\ autoMode = FALSE
  /\ failureProbability = Null
  /\ lastUpdate = Null
  /\ buffer = <<>>
  /\ effect = "cleaned"
  /\ interval = Null
  /\ polls = <<>>
  /\ samplesServed = 0
  /\ activeTab = "dashboard"
  /\ machines \in MachineLists
  /\ OverviewFor("dashboard")
  /\ recommendations = <<>>
  /\ approvedAction = Null
  /\ toasts = <<>>
  /\ InitSender /\ InitRead

NextOverview ==
  \/ \E tab \in TabIds : onTabChange(tab)
  \/ \E machineId \in OfferedIds : handleViewMachine(machineId)
  \/ handleViewSimulation
  \/ handleViewDecisions

SpecOverview == InitOverview /\ [][NextOverview]_vars

(***************************************************************************)
(* SpecLatest: getLatestSample on its own.  A behaviour starts with a      *)
(* payload of the telemetry endpoint in hand: null, an array of samples,   *)
(* or an object whose machines is absent or holds the series of up to two  *)
(* machines under their ids, in either order; a series holds up to         *)
(* MaxSeries samples.  The page shows the Digital Twin tab of a line of    *)
(* two machines, of which either can be selected.                          *)
(***************************************************************************)
TelemetrySamples == {Sample(1), Sample(2), Sample(3)}

TelemetrySeries == UNION {[1..n -> TelemetrySamples] : n \in 0..MaxSeries}

TelemetryKeys == {<<>>, <<"B1">>, <<"B2">>, <<"B1", "B2">>, <<"B2", "B1">>}

TelemetryPayloads ==
  {Null}
  \cup {Some([kind |-> "array", items |-> items, machines |-> Null]) :
          items \in TelemetrySeries}
  \cup {Some([kind |-> "object", items |-> <<>>, machines |-> Null])}
  \cup UNION {{Some([kind |-> "object", items |-> <<>>,
                     machines |-> Some([k \in 1..Len(keys) |->
                                          <<keys[k], series[k]>>])]) :
                  series \in [1..Len(keys) -> TelemetrySeries]} :
                keys \in TelemetryKeys}

InitLatest ==
  /\ InitParams /\ InitManual /\ InitPollOff /\ InitSender
  /\ activeTab = "simulation"
  /\ machines = <<[id |-> "B1", name |-> "High-Pressure Boiler", status |-> "healthy"],
                  [id |-> "B2", name |-> "Boiler", status |-> "healthy"]>>
  /\ OverviewFor("simulation")
  /\ recommendations = <<>>
  /\ approvedAction = Null
  /\ toasts = <<>>
  /\ telemetryPayload \in TelemetryPayloads
  /\ telemetrySample = Null

\* const latestSample = getLatestSample(payload)
ReadLatestSample ==
  /\ telemetrySample = Null
  /\ telemetrySample' = Some(getLatestSample(telemetryPayload))
  /\ UNCHANGED <<telemetryPayload, pageVars, senderVars, paramVars, manualVars,
                 pollVars>>

NextLatest ==
  \/ ReadLatestSample
  \/ \E id \in OfferedIds : onMachineChange(id)

SpecLatest == InitLatest /\ [][NextLatest]_vars

(***************************************************************************)
(* SpecDecisions: the approval view, mounted over any records the          *)
(* aiRecommendations array may hold, from one record to MaxRecs, each with *)
(* its own id and none decided yet.                                        *)
(***************************************************************************)
RecommendationIds == <<"REC-001", "REC-002", "REC-003", "REC-004", "REC-005">>

RecommendationLists ==
  UNION {{[i \in 1..n |-> [id |-> RecommendationIds[i], urgency |-> urgencies[i],
                           approved |-> Null]] :
            urgencies \in [1..n -> {"high", "medium"}]} : n \in 1..MaxRecs}

InitDecisions ==
  /\ InitParams /\ InitManual
  /\ autoMode = FALSE
  /\ failureProbability = Null
  /\ lastUpdate = Null
  /\ buffer = <<>>
  /\ effect = "cleaned"
  /\ interval = Null
  /\ polls = <<>>
  /\ samplesServed = 0
  /\ activeTab = "decisions"
  /\ machines = machinesData
  /\ OverviewFor("decisions")
  /\ recommendations \in RecommendationLists
  /\ approvedAction = Null
  /\ toasts = <<>>
  /\ InitSender /\ InitRead

NextDecisions ==
  \/ \E i \in 1..Len(recommendations) : handleApprove(recommendations[i].id)
  \/ \E i \in 1..Len(recommendations) : handleReject(recommendations[i].id)

SpecDecisions == InitDecisions /\ [][NextDecisions]_vars

(***************************************************************************)
(* C1: for every value of the simulation parameters the derived riskScore  *)
(* is an integer in 0..100: the rounded weighted sum clamped to 0..100.    *)
(***************************************************************************)
C1_RiskScoreBounded ==
  LET score == derived(params).riskScore
      raw == riskRaw(params)
  IN /\ score \in 0..100
     /\ score = IF raw < 0 THEN 0 ELSE IF raw > 100 THEN 100 ELSE raw

\* The clamp has acted at one end: the rounded sum lies outside 0..100.
C1_Witness == riskRaw(params) > 100 /\ derived(params).riskScore = 100

(***************************************************************************)
(* C2: remainingLife is never below 120 hours, and for non-negative        *)
(* operatingHours and bearingWear it is never above 1400 hours; it equals  *)
(* max(120, round(1400 - 8*riskScore - operatingHours/6 - 3*bearingWear)). *)
(***************************************************************************)
C2_RemainingLifeBounded ==
  LET d == derived(params)
      \* 1400 - 8*riskScore - operatingHours/6 - 3*bearingWear, in 1/600 h
      n == 840000 - 4800 * d.riskScore - params.operatingHours
             - 18 * params.bearingWear
  IN /\ d.remainingLife >= 120
     /\ (params.operatingHours >= 0 /\ params.bearingWear >= 0)
          => d.remainingLife <= 1400
     /\ d.remainingLife > 120 => 600 * d.remainingLife - 300 <= n
     /\ d.remainingLife > 120 => n < 600 * d.remainingLife + 300
     /\ d.remainingLife = 120 => n < 600 * 120 + 300

\* The estimate sits at its upper end: no risk, no hours run, no bearing wear.
C2_Witness ==
  /\ params.operatingHours = 0
  /\ params.bearingWear = 0
  /\ derived(params).remainingLife = 1400

(***************************************************************************)
(* C9: when a manual prediction request fails (rejected fetch or non-OK    *)
(* response) the failure is caught: predictionStatus becomes a message     *)
(* starting with "Error: ", isPredicting returns to false and result keeps *)
(* its value; when it succeeds result becomes the API response and         *)
(* predictionStatus becomes "Prediction received!".                        *)
(***************************************************************************)
ManualAwaiting == manual # Null /\ Get(manual).pc = "awaiting"
ManualSettled == manual # Null /\ Get(manual).pc = "settled"
ManualResponse == Get(Get(manual).response)

\* The messages err.message can hold, and the statuses that start with "Error: ".
ErrorStatuses == {Some("Error: " \o ErrMessage(o)) : o \in ManualOutcomes}

C9_ManualOutcome ==
  [][(ManualAwaiting /\ ManualSettled') =>
       /\ isPredicting /\ ~isPredicting'
       /\ ManualResponse'.kind = "ok" =>
            /\ result' = ManualResponse'.data
            /\ result' # Null
            /\ predictionStatus' = Some("Prediction received!")
       /\ ManualResponse'.kind # "ok" =>
            /\ predictionStatus' \in ErrorStatuses
            /\ result' = result]_vars

\* A request has failed while an earlier result was held, and it is still held.
C9_Witness ==
  /\ ManualSettled
  /\ ManualResponse.kind \in {"notOk", "rejected"}
  /\ result # Null
  /\ predictionStatus \in ErrorStatuses
  /\ ~isPredicting

(***************************************************************************)
(* C10: a prediction status message is transient.  While a message is      *)
(* shown a timer of at most 3000 ms is pending; the timer is set to        *)
(* 3000 ms whenever predictionStatus becomes a new non-null value; a       *)
(* message disappears only when its timer fires or a new request replaces  *)
(* it; and every message shown is eventually reset to null.                *)
(***************************************************************************)
C10_StatusTransient ==
  /\ [](predictionStatus # Null =>
          /\ statusTimer # Null
          /\ Get(statusTimer) \in 0..STATUS_CLEAR_MS)
  /\ [][(predictionStatus' # Null /\ predictionStatus' # predictionStatus)
          => statusTimer' = Some(STATUS_CLEAR_MS)]_vars
  /\ [][(predictionStatus # Null /\ predictionStatus' = Null)
          => \/ statusTimer = Some(0)
             \/ ManualAwaiting' /\ ~ManualAwaiting]_vars
  /\ (predictionStatus # Null ~> predictionStatus = Null)

\* The message of the latest request was shown and its timer has fired.
C10_Witness ==
  /\ ManualSettled
  /\ predictionStatus = Null
  /\ statusTimer = Null

(***************************************************************************)
(* Vocabulary of the polling claims.                                       *)
(***************************************************************************)
PollIds == 1..Len(polls)

\* The requests poll p has sent to the retrain and hardware endpoints.
Downstream(p) ==
  {k \in 1..Len(p.sent) : p.sent[k].url \in {RETRAIN_URL, HARDWARE_URL}}

PredictsSent(p) == {k \in 1..Len(p.sent) : p.sent[k].url = PREDICT_URL}

\* The requests poll i issues in the step.
SentNow(i) == SubSeq(polls'[i].sent, Len(polls[i].sent) + 1, Len(polls'[i].sent))

\* The step in which poll i, with the effect active, takes the sample of a
\* successful telemetry response.
TelemetryApplied(i) ==
  /\ active
  /\ polls[i].pc = "telemetry"
  /\ polls'[i].pc # "telemetry"
  /\ ~polls'[i].caught

\* The step in which poll i, with the effect active, catches a failure.
PollFails(i) ==
  /\ active
  /\ polls[i].pc # "done"
  /\ polls'[i].caught

(***************************************************************************)
(* C3: while the polling effect is active every successful telemetry poll  *)
(* appends exactly one sample, the latest, at the tail of the buffer; the  *)
(* buffer never holds more than 200 samples, the oldest being dropped      *)
(* first, so it is always the most recent samples in arrival order.        *)
(***************************************************************************)
C3_BufferAppend ==
  /\ [](Len(buffer) <= 200)
  /\ [](\A k \in 1..(Len(buffer) - 1) :
          buffer[k + 1].timestamp = buffer[k].timestamp + 1)
  /\ []((active /\ buffer # <<>>) => buffer[Len(buffer)].timestamp = samplesServed)
  /\ [][\A i \in PollIds :
          TelemetryApplied(i) =>
            LET sample == Get(polls'[i].latestSample) IN
            /\ sample.timestamp = samplesServed'
            /\ buffer' = IF Len(buffer) < 200
                           THEN Append(buffer, sample)
                           ELSE Append(Tail(buffer), sample)]_vars
  /\ [][buffer' # buffer =>
          \/ \E i \in PollIds : TelemetryApplied(i)
          \/ buffer' = <<>>]_vars

\* The buffer is full and its oldest samples have been dropped.
C3_Witness ==
  /\ active
  /\ Len(buffer) = 200
  /\ buffer[1].timestamp > 1
  /\ \E i \in PollIds : polls[i].latestSample = Some(buffer[200])

(***************************************************************************)
(* C4: a poll sends a predict request only when the buffer holds at least  *)
(* 50 samples, and its sequence is exactly the 50 most recently buffered   *)
(* samples in arrival order, ending with the sample just fetched; with     *)
(* fewer than 50 samples no predict, retrain or hardware request is made.  *)
(***************************************************************************)
C4_PredictSequence ==
  /\ [][\A i \in PollIds :
          (polls[i].pc = "telemetry" /\ polls'[i].pc # "telemetry") =>
            IF TelemetryApplied(i) /\ Len(buffer') >= 50
              THEN /\ Len(SentNow(i)) = 1
                   /\ SentNow(i)[1].url = PREDICT_URL
                   /\ LET sequence == Get(SentNow(i)[1].body).sequence IN
                      /\ Len(sequence) = 50
                      /\ \A k \in 1..50 :
                           sequence[k] = buffer'[Len(buffer') - 50 + k]
                      /\ sequence[50] = Get(polls'[i].latestSample)
              ELSE SentNow(i) = <<>>]_vars
  /\ [](\A i \in PollIds :
          /\ Cardinality(PredictsSent(polls[i])) <= 1
          /\ Downstream(polls[i]) # {} => PredictsSent(polls[i]) # {})

\* A predict request is in flight whose sequence is the tail of a longer buffer.
C4_Witness ==
  \E i \in PollIds :
    /\ polls[i].pc = "predict"
    /\ Len(buffer) > 50
    /\ Get(polls[i].sequence)[1] = buffer[Len(buffer) - 49]
    /\ Get(polls[i].sequence)[1] # buffer[1]

(***************************************************************************)
(* C5: for every poll whose predict request succeeds exactly one           *)
(* downstream request is dispatched: to the retrain endpoint if and only   *)
(* if the returned failure probability is at least the failure threshold,  *)
(* otherwise to the hardware endpoint.                                     *)
(***************************************************************************)
C5_ExactlyOneDispatch ==
  \A i \in PollIds :
    LET p == polls[i] IN
    p.nextFailure # Null =>
      /\ Cardinality(Downstream(p)) = 1
      /\ \A k \in Downstream(p) :
           /\ Get(p.nextFailure) >= DEFAULT_FAILURE_THRESHOLD
                => p.sent[k].url = RETRAIN_URL
           /\ Get(p.nextFailure) < DEFAULT_FAILURE_THRESHOLD
                => p.sent[k].url = HARDWARE_URL

\* A probability equal to the threshold has gone to the retrain endpoint.
C5_Witness ==
  \E i \in PollIds :
    /\ polls[i].nextFailure = Some(DEFAULT_FAILURE_THRESHOLD)
    /\ \E k \in Downstream(polls[i]) : polls[i].sent[k].url = RETRAIN_URL

(***************************************************************************)
(* C6: when the polling effect is active and a poll fails at any step, the *)
(* error is caught, lastUpdate is set to null, the poll posts to neither   *)
(* the retrain nor the hardware endpoint, and no request is issued again   *)
(* before the next timer tick.                                             *)
(***************************************************************************)
C6_FailureCaught ==
  /\ [][\A i \in PollIds :
          PollFails(i) =>
            /\ lastUpdate' = Null
            /\ polls'[i].pc = "done"
            /\ Len(polls') = Len(polls)
            /\ \A j \in PollIds : polls'[j].sent = polls[j].sent]_vars
  /\ [](\A i \in PollIds : polls[i].caught => Downstream(polls[i]) = {})
  /\ [][Len(polls') > Len(polls) => (interval = Some(0) \/ effect = "pending")]_vars

\* A poll has failed at its predict request after an update had been shown.
C6_Witness ==
  /\ active
  /\ lastUpdate = Null
  /\ \E i \in PollIds :
       /\ polls[i].caught
       /\ PredictsSent(polls[i]) # {}
       /\ polls[i].latestSample # Null

C8_NoOrdering ==
  /\ []((effect = "active" /\ interval = Some(0) /\ Len(polls) < MaxPolls)
          => ENABLED IntervalFire)
  /\ [][\A i \in PollIds :
          (mounted /\ polls[i].pc = "predict" /\ polls'[i].nextFailure # Null)
            => failureProbability' = polls'[i].nextFailure]_vars
  /\ [][\A i \in PollIds :
          TelemetryApplied(i) =>
            buffer'[Len(buffer')] = Get(polls'[i].latestSample)]_vars

\* Two polls overlapped and the predict response of the earlier one arrived
\* last: failureProbability holds its value, and its sample was buffered
\* after the sample of the later poll.
C8_Witness ==
  \E i, j \in PollIds :
    /\ i < j
    /\ polls[i].nextFailure # Null
    /\ polls[j].nextFailure # Null
    /\ polls[i].nextFailure # polls[j].nextFailure
    /\ failureProbability = polls[i].nextFailure
    /\ Get(polls[j].latestSample).timestamp < Get(polls[i].latestSample).timestamp

(***************************************************************************)
(* C11: each activation of the manual prediction action sends exactly one  *)
(* POST to /api/send_critical_data.  The count of requests grows only in a *)
(* step that starts a handler (isPredicting, or loading for the form,      *)
(* turns true), and then by one; the step in which a request settles,      *)
(* failed or not, sends nothing.                                           *)
(***************************************************************************)
C11_OnePostPerActivation ==
  [][/\ manualSent' # manualSent =>
          /\ manualSent' = manualSent + 1
          /\ ~isPredicting /\ isPredicting'
          /\ ManualAwaiting' /\ Get(manual').url = SEND_URL
     /\ (~isPredicting /\ isPredicting') => manualSent' = manualSent + 1
     /\ ManualAwaiting =>
          /\ manualSent' = manualSent
          /\ ManualAwaiting' =>
               /\ Get(manual').url = Get(manual).url
               /\ Get(manual').body = Get(manual).body
     /\ submits' # submits =>
          /\ submits' = Append(submits, [url |-> SEND_URL, body |-> formData])
          /\ ~loading /\ loading'
     /\ (~loading /\ loading') => Len(submits') = Len(submits) + 1
     /\ loading => submits' = submits]_vars

\* A request of each kind has failed, and it was the only one sent.
C11_Witness ==
  /\ ManualSettled
  /\ ManualResponse.kind = "rejected"
  /\ manualSent = 1
  /\ ~isPredicting
  /\ Len(submits) = 1
  /\ error = Some("Failed to fetch")
  /\ ~loading

(***************************************************************************)
(* C12: in ManualParameterSender a submit clears error and response and    *)
(* sets loading; when the submit settles loading is false and exactly one  *)
(* of error and response is non-null; error and response are never both    *)
(* non-null.                                                               *)
(***************************************************************************)
C12_SubmitOutcome ==
  /\ [](~(error # Null /\ response # Null))
  /\ [][(~loading /\ loading') => (error' = Null /\ response' = Null)]_vars
  /\ [][(loading /\ ~loading') => ((error' # Null) # (response' # Null))]_vars

(***************************************************************************)
(* C13: in the approval view a decision is final.  A recommendation is     *)
(* undecided when the view is mounted; Approve sets approved to true and   *)
(* Reject sets it to false; and while the view stays mounted a             *)
(* recommendation that is decided never changes again, because its buttons *)
(* are offered only while approved is undefined.                           *)
(***************************************************************************)
RecIds == 1..Len(recommendations)

DecisionsStayMounted == activeTab = "decisions" /\ activeTab' = "decisions"

C13_DecisionFinal ==
  [][/\ (activeTab # "decisions" /\ activeTab' = "decisions") =>
          \A i \in 1..Len(recommendations') : recommendations'[i].approved = Null
     /\ DecisionsStayMounted =>
          \A i \in RecIds :
            /\ recommendations[i].approved # Null =>
                 recommendations'[i] = recommendations[i]
            /\ recommendations'[i].approved # recommendations[i].approved =>
                 /\ recommendations[i].approved = Null
                 /\ \/ /\ recommendations'[i].approved = Some(TRUE)
                       /\ toasts' = Append(toasts, "success")
                       /\ approvedAction' = Some(recommendations[i].id)
                    \/ /\ recommendations'[i].approved = Some(FALSE)
                       /\ toasts' = Append(toasts, "info")
                       /\ approvedAction' = approvedAction]_vars

\* A recommendation has been rejected, and the view no longer offers its buttons.
C13_Witness ==
  /\ activeTab = "decisions"
  /\ recommendations[1].approved = Some(FALSE)
  /\ ~ButtonsOffered(recommendations[1])
  /\ toasts = <<"info">>

(***************************************************************************)
(* C14: nothing is kept across views.  Whenever the page comes to show the *)
(* AI Decisions tab from another tab, every recommendation is undecided    *)
(* and approvedAction is null, whatever was decided before.                *)
(***************************************************************************)
C14_DecisionsNotPersisted ==
  [][(activeTab # "decisions" /\ activeTab' = "decisions") =>
       /\ recommendations' = aiRecommendations
       /\ \A i \in 1..Len(recommendations') : recommendations'[i].approved = Null
       /\ approvedAction' = Null]_vars

\* The view is back after two decisions of earlier visits, and holds neither.
C14_Witness ==
  /\ activeTab = "decisions"
  /\ toasts = <<"success", "info">>
  /\ recommendations = aiRecommendations
  /\ approvedAction = Null

(***************************************************************************)
(* C15: the payload built by the manual prediction action has exactly 27   *)
(* fields: timestamp, machineId, machineName, the 22 simulation parameters *)
(* with the values params holds, vibrationMagnitude (the root of the sum   *)
(* of the squared components, to the nearest thousandth) and isRunning;    *)
(* machineId is the selected machine id and isRunning is params.rpm > 0.   *)
(***************************************************************************)
C15_Payload ==
  [][manualSent' # manualSent =>
       LET body == Get(manual').body
           s == params.vibrationX * params.vibrationX
                  + params.vibrationY * params.vibrationY
                  + params.vibrationZ * params.vibrationZ
           m == body.vibrationMagnitude
       IN /\ DOMAIN body =
               ParamKeys \cup {"timestamp", "machineId", "machineName",
                               "vibrationMagnitude", "isRunning"}
          /\ Cardinality(ParamKeys) = 22
          /\ Cardinality(DOMAIN body) = 27
          /\ \A key \in ParamKeys : body[key] = params[key]
          /\ body.machineId = selectedMachineId
          /\ body.isRunning = (params.rpm > 0)
          /\ m >= 0
          /\ m > 0 => (2 * m - 1) * (2 * m - 1) <= 400 * s
          /\ 400 * s < (2 * m + 1) * (2 * m + 1)]_vars

\* A request is in flight for a stopped machine with edited vibration:
\* sqrt(4.00^2 + 3.00^2 + 2.20^2) = 5.4626... is sent as 5.463.
C15_Witness ==
  /\ ManualAwaiting
  /\ Get(manual).body.rpm = 0
  /\ Get(manual).body.isRunning = FALSE
  /\ Get(manual).body.vibrationX = 400
  /\ Get(manual).body.vibrationY = -300
  /\ Get(manual).body.vibrationMagnitude = 5463

(***************************************************************************)
(* C16: a poll whose telemetry fetch succeeds and whose predict request    *)
(* then fails is not rolled back.  When the poll goes on to its predict    *)
(* request the sample is already applied to params and is the newest of    *)
(* the buffer; the step in which the predict request fails leaves params,  *)
(* the buffer and failureProbability as they are and, with the effect      *)
(* active, sets lastUpdate to null.                                        *)
(***************************************************************************)
PredictFails(i) == PollFails(i) /\ polls[i].pc = "predict"

DownstreamPending(i) == polls[i].downstream = Some("pending")

C17_FireAndForget ==
  /\ [](\A i \in PollIds : polls[i].downstream # Null => polls[i].pc = "done")
  /\ [][\A i \in PollIds :
          /\ (~DownstreamPending(i) /\ DownstreamPending(i)') =>
               /\ Len(SentNow(i)) = 1
               /\ polls'[i].nextFailure # Null
               /\ mounted => failureProbability' = polls'[i].nextFailure
               /\ lastUpdate' = lastUpdate
          /\ (DownstreamPending(i) /\ polls'[i].downstream = Some("rejected")) =>
               /\ lastUpdate' = lastUpdate
               /\ failureProbability' = failureProbability
               /\ params' = params
               /\ buffer' = buffer
               /\ Len(polls') = Len(polls)
               /\ \A j \in PollIds : polls'[j].sent = polls[j].sent]_vars

\* A downstream request has failed; the update time and the prediction of
\* its poll are still shown.
C17_Witness ==
  /\ active
  /\ \E i \in PollIds :
       /\ polls[i].downstream = Some("rejected")
       /\ Cardinality(Downstream(polls[i])) = 1
       /\ failureProbability = polls[i].nextFailure
  /\ lastUpdate # Null

(***************************************************************************)
(* C18: the risk percentage the simulation view displays (currentRisk) and *)
(* the health score 100 - currentRisk are within 0..100 in every reachable *)
(* state, whatever failure probability the prediction API returns.         *)
(***************************************************************************)
C18_RiskWithinRange ==
  /\ currentRisk \in 0..100
  /\ healthScore \in 0..100

(***************************************************************************)
(* C19: in every reachable state selectedMachineId is the id of a record   *)
(* of machinesData, so the lookup of MachineDetails and of                 *)
(* DigitalTwinSimulation finds the selected machine and its fallback to    *)
(* the first record never puts another machine in its place.               *)
(***************************************************************************)
C19_SelectedMachineExists ==
  /\ machines = machinesData
  /\ \E i \in 1..Len(machinesData) : machinesData[i].id = selectedMachineId
  /\ machine.id = selectedMachineId

\* A machine card was clicked: the machine view shows the selected machine.
C19_Witness ==
  /\ activeTab = "machine"
  /\ selectedMachineId = "B1"
  /\ machine = machinesData[1]
  /\ lineStatus = Null

(***************************************************************************)
(* C20: for any machine records getProductionLineStatus is 'at-risk' if a  *)
(* machine is critical, otherwise 'warning' if a machine is in warning,    *)
(* otherwise 'normal'; so the overview shows 'normal' exactly when its     *)
(* count of machines requiring attention (warning or critical) is 0.       *)
(***************************************************************************)
HasStatus(status) == \E i \in 1..Len(machines) : machines[i].status = status

C20_LineStatus ==
  /\ activeTab = "dashboard" <=> lineStatus # Null
  /\ lineStatus # Null =>
       /\ warningCount # Null
       /\ Get(lineStatus) =
            IF HasStatus("critical") THEN "at-risk"
            ELSE IF HasStatus("warning") THEN "warning"
            ELSE "normal"
       /\ Get(warningCount) =
            Len(SelectSeq(machines,
                          LAMBDA m : m.status = "warning" \/ m.status = "critical"))
       /\ Get(lineStatus) = "normal" <=> Get(warningCount) = 0

\* Back on the overview after a visit to machine B2, for a line with a
\* machine in warning and a critical one: the critical one decides.
C20_Witness ==
  /\ activeTab = "dashboard"
  /\ selectedMachineId = "B2"
  /\ HasStatus("warning") /\ HasStatus("critical")
  /\ lineStatus = Some("at-risk")
  /\ warningCount = Some(2)

(***************************************************************************)
(* C21: in every reachable state autoMode is false, so the polling effect  *)
(* never starts a poll: no interval is armed, failureProbability is null,  *)
(* the telemetry buffer is empty, nothing is requested from the telemetry, *)
(* predict, retrain or hardware endpoints, and the status label is         *)
(* 'MANUAL'.                                                               *)
(***************************************************************************)
C21_ManualModeOnly ==
  /\ ~autoMode
  /\ effect # "active"
  /\ interval = Null
  /\ polls = <<>>
  /\ samplesServed = 0
  /\ failureProbability = Null
  /\ buffer = <<>>
  /\ statusLabel = "MANUAL"
  /\ manual # Null =>
       Get(manual).url \notin {TELEMETRY_URL, PREDICT_URL, RETRAIN_URL, HARDWARE_URL}

\* The effect has run and returned at once, and a manual prediction has
\* been received since.
C21_Witness ==
  /\ effect = "skipped"
  /\ manual # Null
  /\ Get(manual).pc = "settled"
  /\ result # Null
  /\ polls = <<>>

(***************************************************************************)
(* C22: isPredicting is true exactly while a manual prediction request is  *)
(* in flight; no request is started while one is in flight, so at most one *)
(* is in flight at any time; and a view that is predicting eventually      *)
(* stops predicting, the request being answered.                           *)
(***************************************************************************)
ManualInFlight == manual # Null /\ Get(manual).pc \in {"awaiting", "detached"}

C22_OneManualInFlight ==
  /\ [](mounted => (isPredicting <=> ManualInFlight))
  /\ [][ManualInFlight => manualSent' = manualSent]_vars
  /\ ((mounted /\ isPredicting) ~> (~isPredicting \/ ~mounted))

(***************************************************************************)
(* C23: whenever a prediction result is held, currentRisk is               *)
(* round(100 * failureProbability) of that result; with no result held it  *)
(* is round(100 * failureProbability) of the auto-mode prediction, and     *)
(* with neither the derived riskScore.                                     *)
(***************************************************************************)
C23_ResultFirst ==
  currentRisk =
    IF result # Null THEN MathRound(100 * Get(result).failureProbability, 100)
    ELSE IF failureProbability # Null
      THEN MathRound(100 * Get(failureProbability), 100)
    ELSE derived(params).riskScore

(***************************************************************************)
(* C24: when the API supplies no risk level, the risk level label and the  *)
(* colour class of the Predicted Risk tile agree for every currentRisk in  *)
(* 0..100: 'SAFE' exactly with stat-ok, 'WARNING' exactly with stat-warn   *)
(* and 'CRITICAL' exactly with stat-alert.                                 *)
(***************************************************************************)
C24_LabelMatchesTile ==
  (predictedRiskLevel = Null /\ currentRisk \in 0..100) =>
    /\ currentRiskLevel = "SAFE" <=> riskTileClass = "stat-ok"
    /\ currentRiskLevel = "WARNING" <=> riskTileClass = "stat-warn"
    /\ currentRiskLevel = "CRITICAL" <=> riskTileClass = "stat-alert"

(***************************************************************************)
(* C25: Reset Defaults sets params to defaultParams, result and            *)
(* failureProbability to null and empties the buffer; and once it was      *)
(* clicked while a request was in flight, the answer to that request does  *)
(* not set result: result stays null until a later request is started.     *)
(***************************************************************************)
\* A step of Reset Defaults that the state shows: it is noted in the
\* request in flight, or it clears a result.
ResetStep ==
  \/ /\ ManualAwaiting /\ ~Get(manual).reset
     /\ ManualAwaiting' /\ Get(manual').reset
  \/ result # Null /\ result' = Null

C25_ResetSticks ==
  /\ [][ResetStep =>
          /\ params' = defaultParams
          /\ result' = Null
          /\ failureProbability' = Null
          /\ buffer' = <<>>]_vars
  /\ [][(ManualAwaiting /\ Get(manual).reset) => result' = Null]_vars

(***************************************************************************)
(* C26: updateNumber(key, value) changes params[key] only.  Every other    *)
(* parameter, result, failureProbability, the buffer and isPredicting keep *)
(* their values, so a prediction result that decides the displayed risk    *)
(* before the edit still decides it after the edit, whatever riskScore the *)
(* new parameters give.                                                    *)
(***************************************************************************)
EditStep == edits' = edits + 1

Approved(recs) == {i \in 1..Len(recs) : recs[i].approved = Some(TRUE)}

C27_DecisionFrame ==
  /\ [](approvedAction = Null <=> Approved(recommendations) = {})
  /\ [](approvedAction # Null =>
          \E i \in Approved(recommendations) :
            recommendations[i].id = Get(approvedAction))
  /\ [][(DecisionsStayMounted /\ recommendations' # recommendations) =>
          \E i \in RecIds :
            /\ recommendations' =
                 [recommendations EXCEPT ![i].approved = recommendations'[i].approved]
            /\ IF recommendations'[i].approved = Some(TRUE)
                 THEN approvedAction' = Some(recommendations[i].id)
                 ELSE approvedAction' = approvedAction]_vars
  /\ [][(DecisionsStayMounted /\ approvedAction' # approvedAction) =>
          Approved(recommendations') # Approved(recommendations)]_vars

\* Of three recommendations the second and then the first were approved,
\* and the third was rejected afterwards.
C27_Witness ==
  /\ Len(recommendations) = 3
  /\ Approved(recommendations) = {1, 2}
  /\ recommendations[3].approved = Some(FALSE)
  /\ approvedAction = Some(recommendations[1].id)
  /\ toasts = <<"success", "success", "info">>

(***************************************************************************)
(* C28: activeTab starts as 'dashboard' and is always one of the four tab  *)
(* ids, and the view rendered is the one of activeTab and no other.        *)
(* selectedMachineId changes only in the step from the overview to the     *)
(* machine view, to a machine the overview offers; every other change of   *)
(* tab leaves it as it is.                                                 *)
(***************************************************************************)
\* Whether the page holds the view of a tab.  MachineDetails keeps no state:
\* it is rendered when activeTab says so.
Rendered(tab) ==
  IF tab = "dashboard" THEN lineStatus # Null
  ELSE IF tab = "decisions" THEN recommendations # <<>>
  ELSE IF tab = "simulation" THEN mounted
  ELSE activeTab = "machine"

C28_TabsAndSelection ==
  /\ activeTab = "dashboard"
  /\ [](activeTab \in {"dashboard", "machine", "simulation", "decisions"})
  /\ [](\A tab \in TabIds : Rendered(tab) <=> activeTab = tab)
  /\ [][selectedMachineId' # selectedMachineId =>
          /\ activeTab = "dashboard"
          /\ activeTab' = "machine"
          /\ \E i \in 1..Len(machines) : machines[i].id = selectedMachineId']_vars
  /\ [][(activeTab' # activeTab /\ ~(activeTab = "dashboard" /\ activeTab' = "machine"))
          => selectedMachineId' = selectedMachineId]_vars

\* Machine B2 was viewed from the overview and then simulated: the Digital
\* Twin tab is shown for B2.
C28_Witness ==
  /\ activeTab = "simulation"
  /\ selectedMachineId = "B2"
  /\ Rendered("simulation")
  /\ ~Rendered("dashboard")

(***************************************************************************)
(* C29: getLatestSample returns null for a null payload, an empty array, a *)
(* payload without machines and an empty series; otherwise it returns the  *)
(* last element of the array, or of the series under the first machine key *)
(* of an object, whatever the other series hold and whichever machine is   *)
(* selected.                                                               *)
(***************************************************************************)
\* The samples the answer is taken from: the array, or the first series.
FirstSeries(pl) ==
  IF pl.kind = "array" THEN pl.items
  ELSE IF pl.machines = Null \/ pl.machines = Some(<<>>) THEN <<>>
  ELSE Head(Get(pl.machines))[2]

C29_LatestSample ==
  telemetrySample # Null =>
    LET latest == Get(telemetrySample) IN
    IF telemetryPayload = Null THEN latest = Null
    ELSE LET from == FirstSeries(Get(telemetryPayload)) IN
         /\ latest = Null <=> from = <<>>
         /\ latest # Null =>
              /\ from = Append(SubSeq(from, 1, Len(from) - 1), Get(latest))
              /\ Get(telemetryPayload).kind = "object" =>
                   \A other \in TelemetrySeries :
                     getLatestSample(
                       Some([Get(telemetryPayload) EXCEPT
                               !.machines =
                                 Some(<<Head(Get(Get(telemetryPayload).machines)),
                                        <<"B9", other>> >>)])) = latest

\* The payload lists B2 before B1 and B1 is selected: the sample returned
\* is the last of B2, which differs from the last of B1.
C29_Witness ==
  /\ telemetrySample # Null
  /\ telemetryPayload # Null
  /\ Get(telemetryPayload).kind = "object"
  /\ Get(telemetryPayload).machines # Null
  /\ selectedMachineId = "B1"
  /\ LET entries == Get(Get(telemetryPayload).machines) IN
     /\ Len(entries) = 2
     /\ entries[1][1] = "B2"
     /\ Len(entries[1][2]) = 2 /\ Len(entries[2][2]) = 2
     /\ entries[1][2][2] # entries[2][2][2]
     /\ telemetrySample = Some(Some(entries[1][2][2]))

====
